---- MODULE Spec2Model ----
(***************************************************************************)
(* A model of the prompts-framework maintenance utilities:                 *)
(*   reorganize_framework.py, restructure_framework.py,                    *)
(*   framework_self_validation.py, comprehensive_validation.py,            *)
(*   cleanup_repository.py.                                                *)
(* Each utility is a command line program that reads JSON documents from   *)
(* files, transforms or checks them, or runs git commands, and ends with   *)
(* an exit status.                                                         *)
(***************************************************************************)
EXTENDS Naturals, Integers, Sequences, FiniteSets, TLC

VARIABLES
    prog,      \* which utility the process runs
    argv,      \* sys.argv[1:], the command line arguments
    fs,        \* the file system: path -> file content
    pc,        \* "start" before the run, "done" after the process exited
    exit,      \* the process's exit status (-1 while it runs)
    ret,       \* the value the utility's main function computed (a JSON value)
    report,    \* the verdict record of the utility's validation
    raised,    \* the exception the run raised ("none" when it raised none)
    cmds,      \* the external commands the process has run, with their outcomes
    locals     \* the local variables of cleanup_repository's functions

vars == <<prog, argv, fs, pc, exit, ret, report, raised, cmds, locals>>

\* The local variables of cleanup_repository before anything is assigned.
NoLocals ==
    [attempt |-> 0, main_branch |-> "None", copilot_branches |-> <<>>, i |-> 0,
     deletion_results |-> <<>>]

(***************************************************************************)
(* JSON values.  Every value is a record of the same shape, so that any    *)
(* two values can be compared:                                             *)
(*   t  the type: "dict", "list", "str", "num", "bool" or "null"           *)
(*   s  the text of a scalar                                               *)
(*   k  the keys of a dict in insertion order (Python dicts keep it)       *)
(*   f  the mapping of a dict, key -> value                                *)
(*   l  the elements of a list                                             *)
(***************************************************************************)
JNull == [t |-> "null", s |-> "", k |-> <<>>, f |-> <<>>, l |-> <<>>]

JStr(x) == [t |-> "str", s |-> x, k |-> <<>>, f |-> <<>>, l |-> <<>>]

JNum(n) == [t |-> "num", s |-> ToString(n), k |-> <<>>, f |-> <<>>, l |-> <<>>]

JBool(b) == [t |-> "bool", s |-> IF b THEN "true" ELSE "false", k |-> <<>>, f |-> <<>>, l |-> <<>>]

JList(sq) == [t |-> "list", s |-> "", k |-> <<>>, f |-> <<>>, l |-> sq]

JDict(ks, fn) == [t |-> "dict", s |-> "", k |-> ks, f |-> fn, l |-> <<>>]

\* A dict literal {k1: v1, k2: v2, ...}, written as a sequence of pairs.
JObj(pairs) ==
    JDict([i \in 1..Len(pairs) |-> pairs[i][1]],
          [key \in {pairs[i][1] : i \in 1..Len(pairs)} |->
              pairs[CHOOSE i \in 1..Len(pairs) :
                       /\ pairs[i][1] = key
                       /\ \A j \in 1..Len(pairs) : pairs[j][1] = key => j <= i][2]])

EmptyDict == JDict(<<>>, <<>>)

EmptyList == JList(<<>>)

IsDict(v) == v.t = "dict"

IsList(v) == v.t = "list"

Keys(v) == DOMAIN v.f

Range(sq) == {sq[i] : i \in 1..Len(sq)}

\* dict.get(key, default)
get(d, key, default) == IF key \in Keys(d) THEN d.f[key] ELSE default

\* Python truthiness of a JSON value: `if not value`.
Truthy(v) ==
    CASE v.t = "dict" -> v.k # <<>>
      [] v.t = "list" -> v.l # <<>>
      [] v.t = "str"  -> v.s # ""
      [] v.t = "num"  -> v.s # "0"
      [] v.t = "bool" -> v.s = "true"
      [] OTHER        -> FALSE

(***************************************************************************)
(* Files.  A path is missing, holds text that is no JSON, holds the        *)
(* serialisation of a JSON value, or is a directory.                       *)
(***************************************************************************)
NoFile == [st |-> "missing", doc |-> JNull]

Garbage == [st |-> "garbage", doc |-> JNull]

Directory == [st |-> "dir", doc |-> JNull]

\* json.dump(value, f, indent=2): the file holds the value's JSON text.
json_dump(v) == [st |-> "json", doc |-> v]

\* open(path) + json.load(f): the parsed value, or the exception raised.
json_load(file) ==
    CASE file.st = "missing" -> [err |-> "FileNotFoundError", val |-> JNull]
      [] file.st = "garbage" -> [err |-> "JSONDecodeError", val |-> JNull]
      [] file.st = "dir"     -> [err |-> "IsADirectoryError", val |-> JNull]
      [] OTHER               -> [err |-> "none", val |-> file.doc]

(***************************************************************************)
(* reorganize_framework.py                                                 *)
(***************************************************************************)

\* The grouping schema of reorganize_framework: the 7 groups, their static
\* descriptive fields and their member keys with the default of original.get.
GroupSchema ==
    << [name |-> "core_framework",
        description |-> "Essential framework components - always visible",
        reveal_on |-> "immediate", complexity |-> "medium",
        members |-> << <<"core", EmptyDict>>, <<"universal_standards", EmptyDict>>,
                       <<"behavioral_rules", EmptyDict>>, <<"principles", EmptyList>> >>],
       [name |-> "development_domains",
        description |-> "Domain-specific development standards and tools",
        reveal_on |-> "domain_specific_project_detected", complexity |-> "high",
        members |-> << <<"web_development", EmptyDict>>, <<"design_system", EmptyDict>>,
                       <<"music_audio_processing", EmptyDict>>, <<"file_processing", EmptyDict>> >>],
       [name |-> "ai_and_automation",
        description |-> "AI enhancement, automation, and intelligent capabilities",
        reveal_on |-> "ai_features_needed", complexity |-> "high",
        members |-> << <<"ai_enhancement", EmptyDict>>, <<"specialized_capabilities", EmptyDict>>,
                       <<"autonomous_completion", EmptyDict>> >>],
       [name |-> "business_and_communication",
        description |-> "Business strategy and communication standards",
        reveal_on |-> "business_context_needed", complexity |-> "medium",
        members |-> << <<"business_strategy", EmptyDict>>, <<"communication", EmptyDict>> >>],
       [name |-> "quality_and_standards",
        description |-> "Quality assurance, formatting, and validation standards",
        reveal_on |-> "quality_validation_needed", complexity |-> "medium",
        members |-> << <<"quality", EmptyDict>>, <<"formatting", EmptyDict>>,
                       <<"documentation", EmptyDict>>, <<"validation_enhancement", EmptyDict>>,
                       <<"_validation", EmptyDict>> >>],
       [name |-> "operations_and_workflow",
        description |-> "Workflow management, monitoring, and operational concerns",
        reveal_on |-> "operational_management_needed", complexity |-> "medium",
        members |-> << <<"workflow", EmptyDict>>, <<"monitoring", EmptyDict>>,
                       <<"execution", EmptyDict>>, <<"system_configurations", EmptyDict>>,
                       <<"infrastructure_preservation", EmptyDict>> >>],
       [name |-> "framework_management",
        description |-> "Framework self-management, optimization, and maintenance",
        reveal_on |-> "framework_maintenance_needed", complexity |-> "high",
        members |-> << <<"self_optimization", EmptyDict>>,
                       <<"cross_reference_integrity_system", EmptyDict>>,
                       <<"change_management", EmptyDict>>,
                       <<"framework_self_optimization", EmptyDict>>,
                       <<"eof_metadata", EmptyDict>> >>] >>

\* Mutant of ReorganizedGroup: the group's last member key is forgotten.
ReorganizedGroup_DropsLastMember(original, g) ==
    JObj(<< <<"description", JStr(g.description)>>,
            <<"reveal_on", JStr(g.reveal_on)>>,
            <<"complexity", JStr(g.complexity)>> >>
         \o [i \in 1..(Len(g.members) - 1) |->
                <<g.members[i][1], get(original, g.members[i][1], g.members[i][2])>>])

\* One group of the reorganized document.
ReorganizedGroup(original, g) ==
    JObj(<< <<"description", JStr(g.description)>>,
            <<"reveal_on", JStr(g.reveal_on)>>,
            <<"complexity", JStr(g.complexity)>> >>
         \o [i \in 1..Len(g.members) |->
                <<g.members[i][1], get(original, g.members[i][1], g.members[i][2])>>])

\* Mutant of Reorganized: "meta" is rewritten instead of copied.
Reorganized_MetaRewritten(original) ==
    JObj(<< <<"meta", JObj(<< <<"version", JStr("36.0.0")>> >>)>> >>
         \o [i \in 1..Len(GroupSchema) |->
                <<GroupSchema[i].name, ReorganizedGroup(original, GroupSchema[i])>>])

\* The `reorganized` dict literal of reorganize_framework.
Reorganized(original) ==
    JObj(<< <<"meta", get(original, "meta", EmptyDict)>> >>
         \o [i \in 1..Len(GroupSchema) |->
                <<GroupSchema[i].name, ReorganizedGroup(original, GroupSchema[i])>>])

\* with open(path, 'w') as f: json.dump(value, f, indent=2).  Opening a
\* directory for writing raises IsADirectoryError and leaves it as it is.
write_json(files, path, value) ==
    IF files[path].st = "dir"
      THEN [err |-> "IsADirectoryError", files |-> files]
      ELSE [err |-> "none", files |-> [files EXCEPT ![path] = json_dump(value)]]

\* Mutant of reorganize_framework: the document is saved to the input path.
reorganize_framework_WritesInput(files, input_path, output_path) ==
    LET loaded == json_load(files[input_path])
    IN  IF loaded.err # "none"
          THEN [err |-> loaded.err, val |-> JNull, files |-> files]
        ELSE IF ~IsDict(loaded.val)
          THEN [err |-> "AttributeError", val |-> JNull, files |-> files]
        ELSE LET reorganized == Reorganized(loaded.val)
                 written == write_json(files, input_path, reorganized)
             IN  IF written.err # "none"
                   THEN [err |-> written.err, val |-> JNull, files |-> written.files]
                   ELSE [err |-> "none", val |-> reorganized, files |-> written.files]

reorganize_framework_OpensOutputFirst(files, input_path, output_path) ==
    LET loaded == json_load(files[input_path])
        opened == [files EXCEPT ![output_path] = Garbage]
    IN  IF files[output_path].st = "dir"
          THEN [err |-> "IsADirectoryError", val |-> JNull, files |-> files]
        ELSE IF loaded.err # "none"
          THEN [err |-> loaded.err, val |-> JNull, files |-> opened]
        ELSE IF ~IsDict(loaded.val)
          THEN [err |-> "AttributeError", val |-> JNull, files |-> opened]
        ELSE [err |-> "none", val |-> Reorganized(loaded.val),
              files |-> [files EXCEPT ![output_path] = json_dump(Reorganized(loaded.val))]]

\* reorganize_framework(input_path, output_path) on file system `files`:
\* the exception raised (if any), the returned document and the files after.
reorganize_framework(files, input_path, output_path) ==
    LET loaded == json_load(files[input_path])
    IN  IF loaded.err # "none"
          THEN [err |-> loaded.err, val |-> JNull, files |-> files]
        ELSE IF ~IsDict(loaded.val)
          THEN [err |-> "AttributeError", val |-> JNull, files |-> files]
        ELSE LET reorganized == Reorganized(loaded.val)
                 written == write_json(files, output_path, reorganized)
             IN  IF written.err # "none"
                   THEN [err |-> written.err, val |-> JNull, files |-> written.files]
                   ELSE [err |-> "none", val |-> reorganized, files |-> written.files]

\* The names a group of the reorganized document contributes to
\* reorganized_sections.
StaticFields == {"description", "reveal_on", "complexity"}

GroupSections_SkipsEmptyValues(group_data) ==
    IF IsDict(group_data)
      THEN {key \in Keys(group_data) \ StaticFields : Truthy(group_data.f[key])}
      ELSE {}

GroupSections(group_data) ==
    IF IsDict(group_data) THEN Keys(group_data) \ StaticFields ELSE {}

\* The sets validate_reorganization computes from the two parsed documents.
original_sections(original) == Keys(original) \ {"meta"}

reorganized_sections(reorganized) ==
    UNION {GroupSections(reorganized.f[group_name]) :
              group_name \in Keys(reorganized) \ {"meta"}}

missing_sections(original, reorganized) ==
    original_sections(original) \ reorganized_sections(reorganized)

extra_sections(original, reorganized) ==
    reorganized_sections(reorganized) \ original_sections(original)

\* Mutant of Verdict: extra sections are not looked at.
Verdict_IgnoresExtra(original, reorganized) ==
    IF missing_sections(original, reorganized) # {} THEN FALSE ELSE TRUE

\* The verdict of validate_reorganization on two parsed documents.
Verdict(original, reorganized) ==
    IF missing_sections(original, reorganized) # {} THEN FALSE
    ELSE IF extra_sections(original, reorganized) # {} THEN FALSE
    ELSE TRUE

NoReport == [ran |-> FALSE, missing |-> {}, extra |-> {}, result |-> FALSE]

\* validate_reorganization(original_path, reorganized_path).
validate_reorganization(files, original_path, reorganized_path) ==
    LET o == json_load(files[original_path])
        r == json_load(files[reorganized_path])
    IN  IF o.err # "none" THEN [err |-> o.err, rep |-> NoReport]
        ELSE IF r.err # "none" THEN [err |-> r.err, rep |-> NoReport]
        ELSE IF ~IsDict(o.val) \/ ~IsDict(r.val)
          THEN [err |-> "AttributeError", rep |-> NoReport]
        ELSE [err |-> "none",
              rep |-> [ran |-> TRUE,
                       missing |-> missing_sections(o.val, r.val),
                       extra |-> extra_sections(o.val, r.val),
                       result |-> Verdict(o.val, r.val)]]

(***************************************************************************)
(* The command line of reorganize_framework.py (__main__).                 *)
(***************************************************************************)
Paths == {"in.json", "out.json"}

\* python3 reorganize_framework.py <input.json> <output.json>
ReorganizeMain ==
    /\ prog = "reorganize_framework"
    /\ pc = "start"
    /\ pc' = "done"
    /\ UNCHANGED <<prog, argv, cmds, locals>>
    /\ IF Len(argv) # 2
         THEN \* usage message, sys.exit(1)
              /\ exit' = 1
              /\ UNCHANGED <<fs, ret, report, raised>>
       ELSE LET input_path == argv[1]
                output_path == argv[2]
                r == reorganize_framework(fs, input_path, output_path)
                v == validate_reorganization(r.files, input_path, output_path)
            IN  IF r.err # "none"
                  THEN \* except Exception: sys.exit(1)
                       /\ raised' = r.err
                       /\ exit' = 1
                       /\ fs' = r.files
                       /\ UNCHANGED <<ret, report>>
                ELSE IF v.err # "none"
                  THEN /\ raised' = v.err
                       /\ exit' = 1
                       /\ fs' = r.files
                       /\ ret' = r.val
                       /\ UNCHANGED report
                ELSE /\ raised' = "none"
                     /\ fs' = r.files
                     /\ ret' = r.val
                     /\ report' = v.rep
                     /\ exit' = IF v.rep.result THEN 0 ELSE 1

(***************************************************************************)
(* Source documents for reorganize_framework: the schema's sections, some  *)
(* of them absent, some sections the schema does not know, with or without *)
(* "meta".                                                                 *)
(***************************************************************************)
MaxAbsent == 2

MaxUnknown == 2

\* The member keys of the schema, in schema order.
RECURSIVE Flatten(_)
Flatten(seqs) == IF seqs = <<>> THEN <<>> ELSE Head(seqs) \o Flatten(Tail(seqs))

SchemaKeySeq ==
    Flatten([i \in 1..Len(GroupSchema) |->
                [j \in 1..Len(GroupSchema[i].members) |-> GroupSchema[i].members[j][1]]])

SchemaKeys == Range(SchemaKeySeq)

GroupNames == {GroupSchema[i].name : i \in 1..Len(GroupSchema)}

AbsentCandidates == {"principles", "core", "eof_metadata"}

UnknownKeys == <<"legacy_section", "description", "core_framework">>

MetaValues ==
    {EmptyDict,
     JObj(<< <<"version", JStr("35.2.0")>>, <<"role", JStr("assistant")>> >>),
     JStr("v35")}

\* The value a section holds in the sample documents.
SectionValue(key) ==
    IF key = "principles"
      THEN JList(<<JStr("clarity"), JStr("simplicity")>>)
      ELSE JObj(<< <<"section", JStr(key)>> >>)

SourceDoc(hasMeta, meta, absent, unknown) ==
    LET keys == (IF hasMeta THEN <<"meta">> ELSE <<>>)
                \o SelectSeq(SchemaKeySeq, LAMBDA key : key \notin absent)
                \o SelectSeq(UnknownKeys, LAMBDA key : key \in unknown)
    IN  JDict(keys, [key \in Range(keys) |->
                        IF key = "meta" THEN meta ELSE SectionValue(key)])

SourceDocs ==
    {SourceDoc(TRUE, meta, absent, unknown) :
        meta \in MetaValues,
        absent \in {a \in SUBSET AbsentCandidates : Cardinality(a) <= MaxAbsent},
        unknown \in {u \in SUBSET Range(UnknownKeys) : Cardinality(u) <= MaxUnknown}}
    \cup
    {SourceDoc(FALSE, JNull, absent, unknown) :
        absent \in {a \in SUBSET AbsentCandidates : Cardinality(a) <= MaxAbsent},
        unknown \in {u \in SUBSET Range(UnknownKeys) : Cardinality(u) <= MaxUnknown}}

\* What the input file may hold: a source document, a JSON list, text that
\* does not parse, or nothing.
InputFiles ==
    {json_dump(d) : d \in SourceDocs}
    \cup {json_dump(JList(<<JStr("x")>>)), Garbage, NoFile}

OldOutputFiles == {NoFile, json_dump(JObj(<< <<"stale", JBool(TRUE)>> >>)), Directory}

ArgvChoices ==
    {<<"in.json", "out.json">>, <<"in.json", "in.json">>, <<"in.json">>}

InitReorganize ==
    /\ prog = "reorganize_framework"
    /\ argv \in ArgvChoices
    /\ \E i \in InputFiles, o \in OldOutputFiles :
          fs = [p \in Paths |-> IF p = "in.json" THEN i ELSE o]
    /\ pc = "start"
    /\ exit = -1
    /\ ret = JNull
    /\ report = NoReport
    /\ raised = "none"
    /\ cmds = <<>>
    /\ locals = NoLocals

SpecReorganize == InitReorganize /\ [][ReorganizeMain]_vars

(***************************************************************************)
(* restructure_framework.py                                                *)
(***************************************************************************)
Ok(v) == [err |-> "none", val |-> v]

Raise(e) == [err |-> e, val |-> JNull]

\* `key in container`.  A string contains a key when it is the key: the
\* strings of the sample documents contain no key as a proper substring.
py_in(key, c) ==
    CASE c.t = "dict" -> Ok(key \in Keys(c))
      [] c.t = "list" -> Ok(JStr(key) \in Range(c.l))
      [] c.t = "str"  -> Ok(c.s = key)
      [] OTHER        -> Raise("TypeError")

\* `container[key]` for a string key.
py_getitem(c, key) ==
    IF c.t = "dict"
      THEN IF key \in Keys(c) THEN Ok(c.f[key]) ELSE Raise("KeyError")
      ELSE Raise("TypeError")

\* The first exception of a sequence of evaluations, "none" when there is none.
RECURSIVE FirstErr(_)
FirstErr(results) ==
    IF results = <<>> THEN "none"
    ELSE IF Head(results).err # "none" THEN Head(results).err
    ELSE FirstErr(Tail(results))

\* {key: m[key] for key in allow_list if key in m}
RECURSIVE SelectAllowed(_, _)
SelectAllowed(m, allow_list) ==
    IF allow_list = <<>> THEN Ok(<<>>)
    ELSE LET key == Head(allow_list)
             has == py_in(key, m)
         IN  IF has.err # "none" THEN Raise(has.err)
             ELSE IF ~has.val THEN SelectAllowed(m, Tail(allow_list))
             ELSE LET item == py_getitem(m, key)
                      rest == SelectAllowed(m, Tail(allow_list))
                  IN  IF item.err # "none" THEN Raise(item.err)
                      ELSE IF rest.err # "none" THEN Raise(rest.err)
                      ELSE Ok(<<key>> \o rest.val)

Restrict(m, keys) == JDict(keys, [key \in Range(keys) |-> m.f[key]])

essential_part_SourceOrder(m, allow_list) ==
    LET sel == SelectAllowed(m, allow_list)
    IN  IF sel.err # "none" THEN Raise(sel.err)
        ELSE Ok(Restrict(m, SelectSeq(m.k, LAMBDA key : key \in Range(sel.val))))

\* {key: m[key] for key in allow_list if key in m}
essential_part(m, allow_list) ==
    LET sel == SelectAllowed(m, allow_list)
    IN  IF sel.err # "none" THEN Raise(sel.err) ELSE Ok(Restrict(m, sel.val))

\* Mutant of advanced_part: the filter on the essential keys is forgotten.
advanced_part_KeepsAll(m, essential_keys) ==
    IF ~IsDict(m) THEN Raise("AttributeError") ELSE Ok(m)

\* {key: value for key, value in m.items() if key not in essential_keys}
advanced_part(m, essential_keys) ==
    IF ~IsDict(m) THEN Raise("AttributeError")
    ELSE Ok(Restrict(m, SelectSeq(m.k, LAMBDA key : key \notin essential_keys)))

essential_rule_keys ==
    <<"approval_required", "full_internalization", "never_truncate_policy", "surgical_precision">>

\* `if not behavioral_rules or "core_rules" not in behavioral_rules`
NoCoreRules(behavioral_rules) ==
    IF ~Truthy(behavioral_rules) THEN Ok(TRUE)
    ELSE LET has == py_in("core_rules", behavioral_rules)
         IN  IF has.err # "none" THEN Raise(has.err) ELSE Ok(~has.val)

extract_essential_behavioral_rules(behavioral_rules) ==
    LET none == NoCoreRules(behavioral_rules)
    IN  IF none.err # "none" THEN Raise(none.err)
        ELSE IF none.val THEN Ok(EmptyDict)
        ELSE LET core_rules == py_getitem(behavioral_rules, "core_rules")
             IN  IF core_rules.err # "none" THEN Raise(core_rules.err)
                 ELSE essential_part(core_rules.val, essential_rule_keys)

extract_advanced_behavioral_rules(behavioral_rules) ==
    LET none == NoCoreRules(behavioral_rules)
    IN  IF none.err # "none" THEN Raise(none.err)
        ELSE IF none.val THEN Ok(EmptyDict)
        ELSE LET core_rules == py_getitem(behavioral_rules, "core_rules")
             IN  IF core_rules.err # "none" THEN Raise(core_rules.err)
                 ELSE advanced_part(core_rules.val, Range(essential_rule_keys))

\* The fixed prefix length of the principles split.
EssentialPrinciples == 7

\* principles[:7] if principles else []
\* (a string is sliced like a list; the strings of the sample documents are
\* shorter than 7 characters, so the slice is the string itself)
extract_essential_principles(principles) ==
    IF ~Truthy(principles) THEN Ok(EmptyList)
    ELSE IF IsList(principles)
      THEN Ok(JList(SubSeq(principles.l, 1,
                           IF Len(principles.l) < EssentialPrinciples
                             THEN Len(principles.l) ELSE EssentialPrinciples)))
    ELSE IF principles.t = "str" THEN Ok(principles)
    ELSE Raise("TypeError")

\* Mutant of extract_advanced_principles: the remainder starts one element late.
extract_advanced_principles_OffByOne(principles) ==
    IF IsList(principles)
      THEN IF Len(principles.l) > EssentialPrinciples
             THEN Ok(JList(SubSeq(principles.l, EssentialPrinciples + 2, Len(principles.l))))
             ELSE Ok(EmptyList)
    ELSE Raise("TypeError")

\* principles[7:] if len(principles) > 7 else []
extract_advanced_principles(principles) ==
    IF IsList(principles)
      THEN IF Len(principles.l) > EssentialPrinciples
             THEN Ok(JList(SubSeq(principles.l, EssentialPrinciples + 1, Len(principles.l))))
             ELSE Ok(EmptyList)
    ELSE IF IsDict(principles) /\ Len(principles.k) <= EssentialPrinciples
      THEN Ok(EmptyList)
    ELSE IF principles.t = "str" THEN Ok(EmptyList)
    ELSE Raise("TypeError")

web_essential_keys ==
    <<"responsive_design", "accessibility", "performance", "semantic_html", "css_architecture">>

extract_essential_web_patterns(web_dev) ==
    IF ~Truthy(web_dev) THEN Ok(EmptyDict)
    ELSE essential_part(web_dev, web_essential_keys)

extract_advanced_web_features(web_dev) ==
    IF ~Truthy(web_dev) THEN Ok(EmptyDict)
    ELSE advanced_part(web_dev, Range(web_essential_keys))

core_keys == <<"typography", "color_system", "spacing", "component_library">>

extract_core_design_components(design_system) ==
    IF ~Truthy(design_system) THEN Ok(EmptyDict)
    ELSE essential_part(design_system, core_keys)

extract_advanced_design_components(design_system) ==
    IF ~Truthy(design_system) THEN Ok(EmptyDict)
    ELSE advanced_part(design_system, Range(core_keys))

execution_essential_keys == <<"validation_gates", "error_handling", "rollback_mechanisms">>

extract_essential_execution(execution) ==
    IF ~Truthy(execution) THEN Ok(EmptyDict)
    ELSE essential_part(execution, execution_essential_keys)

extract_advanced_execution(execution) ==
    IF ~Truthy(execution) THEN Ok(EmptyDict)
    ELSE advanced_part(execution, Range(execution_essential_keys))

\* original["meta"]: KeyError when the key is absent.
\* original["meta"].get(...): AttributeError when the value is no dict.
MetaAccess(original) ==
    LET meta == py_getitem(original, "meta")
    IN  IF meta.err # "none" THEN Raise(meta.err)
        ELSE IF ~IsDict(meta.val) THEN Raise("AttributeError")
        ELSE Ok(meta.val)

\* The evaluations of the `restructured` dict literal that can raise, in the
\* order Python evaluates them.
SplitResults(original) ==
    << MetaAccess(original),
       extract_essential_behavioral_rules(get(original, "behavioral_rules", EmptyDict)),
       extract_advanced_behavioral_rules(get(original, "behavioral_rules", EmptyDict)),
       extract_essential_principles(get(original, "principles", EmptyList)),
       extract_advanced_principles(get(original, "principles", EmptyList)),
       extract_essential_web_patterns(get(original, "web_development", EmptyDict)),
       extract_advanced_web_features(get(original, "web_development", EmptyDict)),
       extract_core_design_components(get(original, "design_system", EmptyDict)),
       extract_advanced_design_components(get(original, "design_system", EmptyDict)),
       extract_essential_execution(get(original, "execution", EmptyDict)),
       extract_advanced_execution(get(original, "execution", EmptyDict)) >>

\* The `restructured` dict literal, given the results of its evaluations.
Restructured(original, r) ==
    LET meta == r[1].val
    IN
    JObj(<<
      <<"meta", JObj(<<
          <<"essential_info", JObj(<<
              <<"version", JStr("38.0.0")>>,
              <<"timestamp", JStr("2025-01-27T15:30:00Z")>>,
              <<"author", JStr("anon987654321")>>,
              <<"description", JStr("Self-optimized prompts.json v38.0.0 with cognitive load management")>>,
              <<"self_validated", JBool(TRUE)>>,
              <<"auto_applies_to", JStr("every_file_and_entire_projects")>> >>)>>,
          <<"framework_details", JObj(<<
              <<"reveal_on", JStr("detailed_inspection_needed")>>,
              <<"complexity", JStr("medium")>>,
              <<"consolidation_summary", get(meta, "consolidation_summary", EmptyDict)>>,
              <<"compliance", get(meta, "compliance", EmptyList)>> >>)>>,
          <<"integration_config", JObj(<<
              <<"reveal_on", JStr("deployment_or_integration")>>,
              <<"complexity", JStr("low")>>,
              <<"role", get(meta, "role", JStr(""))>>,
              <<"execution_disclaimer", get(meta, "execution_disclaimer", JStr(""))>>,
              <<"github_integration", get(meta, "github_integration", EmptyDict)>> >>)>>,
          <<"self_optimization", JObj(<<
              <<"cognitive_load_management", JBool(TRUE)>>,
              <<"progressive_disclosure_enabled", JBool(TRUE)>>,
              <<"framework_health_checks", JBool(TRUE)>>,
              <<"self_enforcement_active", JBool(TRUE)>>,
              <<"last_self_validation", JStr("2025-01-27T15:30:00Z")>> >>)>> >>)>>,
      <<"core_framework", JObj(<<
          <<"essential_first", JBool(TRUE)>>,
          <<"description", JStr("Core behavioral rules and restrictions - essential for all operations")>>,
          <<"file_policy", get(original, "file_policy", EmptyDict)>>,
          <<"core_restrictions", get(original, "core_restrictions", EmptyDict)>>,
          <<"behavioral_rules", JObj(<<
              <<"essential_rules", JObj(<<
                  <<"reveal_on", JStr("immediate")>>,
                  <<"rules", r[2].val>> >>)>>,
              <<"advanced_rules", JObj(<<
                  <<"reveal_on", JStr("complex_scenarios")>>,
                  <<"complexity", JStr("high")>>,
                  <<"rules", r[3].val>> >>)>> >>)>> >>)>>,
      <<"standards_and_principles", JObj(<<
          <<"description", JStr("Universal standards and core principles - progressive disclosure by complexity")>>,
          <<"essential_principles", JObj(<<
              <<"reveal_on", JStr("immediate")>>,
              <<"complexity", JStr("low")>>,
              <<"principles", r[4].val>> >>)>>,
          <<"advanced_principles", JObj(<<
              <<"reveal_on", JStr("advanced_usage")>>,
              <<"complexity", JStr("medium")>>,
              <<"principles", r[5].val>> >>)>>,
          <<"universal_standards", get(original, "universal_standards", EmptyDict)>>,
          <<"formatting_rules", get(original, "formatting_rules", EmptyDict)>>,
          <<"error_handling", get(original, "error_handling", EmptyDict)>> >>)>>,
      <<"development_domains", JObj(<<
          <<"description", JStr("Domain-specific development standards - revealed based on project type")>>,
          <<"web_development", JObj(<<
              <<"essential_patterns", JObj(<<
                  <<"reveal_on", JStr("web_project_detected")>>,
                  <<"complexity", JStr("medium")>>,
                  <<"patterns", r[6].val>> >>)>>,
              <<"advanced_features", JObj(<<
                  <<"reveal_on", JStr("complex_web_features_needed")>>,
                  <<"complexity", JStr("high")>>,
                  <<"features", r[7].val>> >>)>> >>)>>,
          <<"design_system", JObj(<<
              <<"core_components", JObj(<<
                  <<"reveal_on", JStr("ui_design_needed")>>,
                  <<"complexity", JStr("medium")>>,
                  <<"components", r[8].val>> >>)>>,
              <<"advanced_design", JObj(<<
                  <<"reveal_on", JStr("sophisticated_design_needed")>>,
                  <<"complexity", JStr("high")>>,
                  <<"components", r[9].val>> >>)>> >>)>> >>)>>,
      <<"specialized_systems", JObj(<<
          <<"description", JStr("Specialized systems and advanced features - revealed on demand")>>,
          <<"ai3_assistant_system", JObj(<<
              <<"reveal_on", JStr("ai_assistance_needed")>>,
              <<"complexity", JStr("high")>>,
              <<"system", get(original, "ai3_assistant_system", EmptyDict)>> >>)>>,
          <<"rails_8_ecosystem", JObj(<<
              <<"reveal_on", JStr("rails_project_detected")>>,
              <<"complexity", JStr("medium")>>,
              <<"ecosystem", get(original, "rails_8_ecosystem", EmptyDict)>> >>)>>,
          <<"audio_visualizer_system", JObj(<<
              <<"reveal_on", JStr("audio_visualization_needed")>>,
              <<"complexity", JStr("high")>>,
              <<"system", get(original, "audio_visualizer_system", EmptyDict)>> >>)>>,
          <<"business_strategy", JObj(<<
              <<"reveal_on", JStr("business_planning_needed")>>,
              <<"complexity", JStr("medium")>>,
              <<"strategy", get(original, "business_strategy", EmptyDict)>> >>)>> >>)>>,
      <<"operational_framework", JObj(<<
          <<"description", JStr("Execution, validation, and operational concerns")>>,
          <<"execution", JObj(<<
              <<"essential_execution", JObj(<<
                  <<"reveal_on", JStr("immediate")>>,
                  <<"complexity", JStr("low")>>,
                  <<"patterns", r[10].val>> >>)>>,
              <<"advanced_execution", JObj(<<
                  <<"reveal_on", JStr("complex_operations_needed")>>,
                  <<"complexity", JStr("high")>>,
                  <<"patterns", r[11].val>> >>)>> >>)>>,
          <<"validation_framework", get(original, "validation_framework", EmptyDict)>>,
          <<"change_management", get(original, "change_management", EmptyDict)>>,
          <<"communication", get(original, "communication", EmptyDict)>>,
          <<"communication_standards", get(original, "communication_standards", EmptyDict)>> >>)>>,
      <<"framework_health", JObj(<<
          <<"description", JStr("Framework self-monitoring and health checks")>>,
          <<"health_checks", JObj(<<
              <<"cognitive_load_validation", JBool(TRUE)>>,
              <<"progressive_disclosure_validation", JBool(TRUE)>>,
              <<"dry_compliance_check", JBool(TRUE)>>,
              <<"self_enforcement_check", JBool(TRUE)>> >>)>>,
          <<"self_enforcement", JObj(<<
              <<"framework_applies_to_itself", JBool(TRUE)>>,
              <<"recursive_validation", JBool(TRUE)>>,
              <<"continuous_improvement", JBool(TRUE)>> >>)>> >>)>>
    >>)

\* restructure_framework(input_path, output_path) on file system `files`.
restructure_framework(files, input_path, output_path) ==
    LET loaded == json_load(files[input_path])
    IN  IF loaded.err # "none"
          THEN [err |-> loaded.err, val |-> JNull, files |-> files]
        ELSE IF ~IsDict(loaded.val)
          THEN [err |-> "TypeError", val |-> JNull, files |-> files]
        ELSE LET r == SplitResults(loaded.val)
             IN  IF FirstErr(r) # "none"
                   THEN [err |-> FirstErr(r), val |-> JNull, files |-> files]
                 ELSE LET restructured == Restructured(loaded.val, r)
                          written == write_json(files, output_path, restructured)
                      IN  IF written.err # "none"
                            THEN [err |-> written.err, val |-> JNull,
                                  files |-> written.files]
                            ELSE [err |-> "none", val |-> restructured,
                                  files |-> written.files]

\* python3 restructure_framework.py <input.json> <output.json>
RestructureMain ==
    /\ prog = "restructure_framework"
    /\ pc = "start"
    /\ pc' = "done"
    /\ UNCHANGED <<prog, argv, report, cmds, locals>>
    /\ IF Len(argv) # 2
         THEN /\ exit' = 1
              /\ UNCHANGED <<fs, ret, raised>>
       ELSE LET r == restructure_framework(fs, argv[1], argv[2])
            IN  /\ raised' = r.err
                /\ fs' = r.files
                /\ ret' = r.val
                /\ exit' = IF r.err = "none" THEN 0 ELSE 1

(***************************************************************************)
(* Source documents for restructure_framework: a well-formed baseline      *)
(* document, and every document that differs from it in one section, which *)
(* is absent, empty, a mapping over a few sub-keys in any order, a list of *)
(* any length up to MaxListLen, or a value of another type.                *)
(***************************************************************************)
MaxSubKeys == 3

MaxListLen == 9

\* The sequences without repetition of at most n elements of S.
OrderedSubsets(S, n) ==
    {sq \in UNION {[1..m -> S] : m \in 0..n} :
        \A i, j \in 1..Len(sq) : sq[i] = sq[j] => i = j}

\* The mapping with the given keys, in the given order; each key's value
\* names the key.
SampleDict(keys) == JDict(keys, [key \in Range(keys) |-> JStr(key)])

SampleDicts(S) == {SampleDict(keys) : keys \in OrderedSubsets(S, MaxSubKeys)}

SampleList(n) == JList([i \in 1..n |-> JNum(i)])

Present(v) == [present |-> TRUE, val |-> v]

Absent == [present |-> FALSE, val |-> JNull]

RuleSubKeys == {"surgical_precision", "approval_required", "custom_rule", "escalation"}

WebSubKeys == {"accessibility", "responsive_design", "websockets", "pwa"}

DesignSubKeys == {"spacing", "typography", "animations", "theming"}

ExecutionSubKeys == {"rollback_mechanisms", "validation_gates", "parallelism", "tracing"}

OtherTypes == {JNull, JNum(5), JStr("abc"), JList(<<JStr("x")>>)}

SlotOptions(slot) ==
    CASE slot = "meta" ->
           {Absent, Present(EmptyDict), Present(JStr("v38")), Present(JNull),
            Present(JObj(<< <<"role", JStr("assistant")>>,
                            <<"compliance", JList(<<JStr("wcag")>>)>> >>))}
      [] slot = "behavioral_rules" ->
           {Absent, Present(JNum(5)), Present(JObj(<< <<"core_rules", JNull>> >>)),
            Present(JObj(<< <<"advanced_rules", SampleDict(<<"escalation">>)>> >>))}
           \cup {Present(JObj(<< <<"core_rules", d>> >>)) : d \in SampleDicts(RuleSubKeys)}
           \cup {Present(JObj(<< <<"core_rules", d>>,
                                 <<"advanced_rules", SampleDict(<<"escalation">>)>> >>)) :
                    d \in {SampleDict(<<>>), SampleDict(<<"custom_rule", "approval_required">>)}}
           \cup {Present(EmptyDict)}
      [] slot = "principles" ->
           {Absent} \cup {Present(SampleList(n)) : n \in 0..MaxListLen}
           \cup {Present(JNull), Present(JStr("abc")), Present(JNum(5))}
      [] slot = "web_development" ->
           {Absent} \cup {Present(d) : d \in SampleDicts(WebSubKeys) \cup OtherTypes}
      [] slot = "design_system" ->
           {Absent} \cup {Present(d) : d \in SampleDicts(DesignSubKeys) \cup OtherTypes}
      [] OTHER ->
           {Absent} \cup {Present(d) : d \in SampleDicts(ExecutionSubKeys) \cup OtherTypes}

Baseline(slot) ==
    CASE slot = "meta" -> Present(JObj(<< <<"role", JStr("assistant")>> >>))
      [] slot = "behavioral_rules" ->
           Present(JObj(<< <<"core_rules", SampleDict(<<"custom_rule", "approval_required">>)>> >>))
      [] slot = "principles" -> Present(SampleList(8))
      [] slot = "web_development" -> Present(SampleDict(<<"accessibility", "websockets">>))
      [] slot = "design_system" -> Present(SampleDict(<<"spacing", "animations">>))
      [] OTHER -> Present(SampleDict(<<"validation_gates", "tracing">>))

SplitSlots ==
    <<"meta", "behavioral_rules", "principles", "web_development", "design_system", "execution">>

PassthroughKeys ==
    <<"file_policy", "core_restrictions", "universal_standards", "formatting_rules",
      "error_handling", "ai3_assistant_system", "rails_8_ecosystem",
      "audio_visualizer_system", "business_strategy", "validation_framework",
      "change_management", "communication", "communication_standards">>

\* The baseline document with section `slot` replaced by option `opt`.
RestructureDoc(slot, opt, passthrough) ==
    LET choice(k) == IF k = slot THEN opt ELSE Baseline(k)
        keys == SelectSeq(SplitSlots, LAMBDA k : choice(k).present)
                \o (IF passthrough THEN PassthroughKeys ELSE <<>>)
    IN  JDict(keys, [k \in Range(keys) |->
                        IF k \in Range(SplitSlots) THEN choice(k).val
                        ELSE JObj(<< <<"section", JStr(k)>> >>)])

RestructureDocs ==
    UNION {{RestructureDoc(SplitSlots[i], opt, TRUE) : opt \in SlotOptions(SplitSlots[i])} :
              i \in 1..Len(SplitSlots)}
    \cup {RestructureDoc("meta", opt, FALSE) : opt \in SlotOptions("meta")}
    \cup {EmptyDict}

InitRestructure ==
    /\ prog = "restructure_framework"
    /\ argv \in ArgvChoices
    /\ \E i \in {json_dump(d) : d \in RestructureDocs}
                \cup {json_dump(JList(<<JStr("x")>>)), Garbage, NoFile},
          o \in OldOutputFiles :
          fs = [p \in Paths |-> IF p = "in.json" THEN i ELSE o]
    /\ pc = "start"
    /\ exit = -1
    /\ ret = JNull
    /\ report = NoReport
    /\ raised = "none"
    /\ cmds = <<>>
    /\ locals = NoLocals

SpecRestructure == InitRestructure /\ [][RestructureMain]_vars

(***************************************************************************)
(* Both document transformers, each run from its command line.             *)
(***************************************************************************)
InitTransform == InitReorganize \/ InitRestructure

NextTransform == ReorganizeMain \/ RestructureMain

SpecTransform == InitTransform /\ [][NextTransform]_vars

(***************************************************************************)
(* Properties of reorganize_framework and validate_reorganization.         *)
(***************************************************************************)

\* A run of `p` that read a JSON object from one file and wrote another file:
\* the input file still holds the source document.
Transformed(p) ==
    /\ prog = p
    /\ pc = "done"
    /\ Len(argv) = 2
    /\ argv[1] # argv[2]
    /\ raised = "none"
    /\ ret # JNull

SourceDocument == fs[argv[1]].doc

\* The groups of the reorganized document that hold `key` as a member key.
GroupsHolding(doc, key) ==
    {g \in DOMAIN doc.f \ {"meta"} :
        /\ doc.f[g].t = "dict"
        /\ key \in DOMAIN doc.f[g].f
        /\ key \notin {"description", "reveal_on", "complexity"}}

\* C1 (as stated): for every source document that is a JSON object,
\* reorganizing it and validating the result against it finds no missing and
\* no extra section and returns True.
C1_RoundTripComplete ==
    Transformed("reorganize_framework") =>
        /\ report.ran
        /\ report.missing = {}
        /\ report.extra = {}
        /\ report.result = TRUE

\* C2 (as stated): a schema key that is absent from the source gets an empty
\* container in the output, the run does not fail, and the completeness
\* checker does not report the placeholder as an extra section.
C2_PlaceholderNotExtra ==
    (/\ prog = "reorganize_framework"
     /\ pc = "done"
     /\ Len(argv) = 2
     /\ argv[1] # argv[2]
     /\ fs[argv[1]].st = "json"
     /\ fs[argv[1]].doc.t = "dict"
     /\ fs[argv[2]].st # "dir") =>
        /\ raised = "none"
        /\ report.ran
        /\ \A i \in 1..Len(GroupSchema) : \A j \in 1..Len(GroupSchema[i].members) :
              LET key == GroupSchema[i].members[j][1]
              IN  key \notin DOMAIN SourceDocument.f =>
                     /\ ret.f[GroupSchema[i].name].f[key] = GroupSchema[i].members[j][2]
                     /\ key \notin report.extra

\* C3 (as stated): every top-level key of the source other than "meta" is a
\* member key of exactly one group of the output.
C3_ExactlyOneSlot ==
    Transformed("reorganize_framework") =>
        \A key \in DOMAIN SourceDocument.f \ {"meta"} :
            Cardinality(GroupsHolding(ret, key)) = 1

\* What reorganize_framework does with the keys: a top-level key of the
\* source that the grouping schema lists is a member key of exactly one group
\* of the output, with the source's value; a key the schema does not list
\* (other than "meta") is a member key of no group, and the completeness
\* checker reports it as missing.
C3_SchemaKeysExactlyOneSlot ==
    Transformed("reorganize_framework") =>
        \A key \in DOMAIN SourceDocument.f \ {"meta"} :
            IF \E i \in 1..Len(GroupSchema) : \E j \in 1..Len(GroupSchema[i].members) :
                  GroupSchema[i].members[j][1] = key
              THEN /\ Cardinality(GroupsHolding(ret, key)) = 1
                   /\ \A g \in GroupsHolding(ret, key) :
                         ret.f[g].f[key] = SourceDocument.f[key]
              ELSE /\ GroupsHolding(ret, key) = {}
                   /\ report.ran /\ key \in report.missing

\* A run on a document that holds schema keys and a key the schema does not
\* list: the key is in no group of the output.
C3_Witness ==
    /\ Transformed("reorganize_framework")
    /\ "legacy_section" \in DOMAIN SourceDocument.f
    /\ "core" \in DOMAIN SourceDocument.f
    /\ GroupsHolding(ret, "core") = {"core_framework"}
    /\ GroupsHolding(ret, "legacy_section") = {}

\* C6: when the source document has a "meta" key, the output's "meta" value,
\* returned and written, is the source's "meta" value (also when the output
\* path is the input path).  There is an output unless the output path is a
\* directory, which cannot be written.
C6_MetaPassthrough ==
    [][(/\ prog = "reorganize_framework"
        /\ pc = "start"
        /\ pc' = "done"
        /\ Len(argv) = 2
        /\ fs[argv[1]].st = "json"
        /\ fs[argv[1]].doc.t = "dict"
        /\ fs[argv[2]].st # "dir"
        /\ "meta" \in DOMAIN fs[argv[1]].doc.f) =>
            /\ ret'.t = "dict"
            /\ ret'.f["meta"] = fs[argv[1]].doc.f["meta"]
            /\ fs'[argv[2]].st = "json"
            /\ fs'[argv[2]].doc.f["meta"] = fs[argv[1]].doc.f["meta"]]_vars

\* Witness of C6: a run whose source has a non-empty "meta" mapping, which
\* the output holds.
C6_Witness ==
    /\ Transformed("reorganize_framework")
    /\ "meta" \in DOMAIN SourceDocument.f
    /\ SourceDocument.f["meta"].t = "dict"
    /\ "version" \in DOMAIN SourceDocument.f["meta"].f
    /\ ret.f["meta"] = SourceDocument.f["meta"]

(***************************************************************************)
(* Properties of restructure_framework.                                    *)
(***************************************************************************)

\* The two parts restructure_framework writes for a split section.
EssentialOf(doc, key) ==
    CASE key = "behavioral_rules" ->
           doc.f["core_framework"].f["behavioral_rules"].f["essential_rules"].f["rules"]
      [] key = "principles" ->
           doc.f["standards_and_principles"].f["essential_principles"].f["principles"]
      [] key = "web_development" ->
           doc.f["development_domains"].f["web_development"].f["essential_patterns"].f["patterns"]
      [] key = "design_system" ->
           doc.f["development_domains"].f["design_system"].f["core_components"].f["components"]
      [] key = "execution" ->
           doc.f["operational_framework"].f["execution"].f["essential_execution"].f["patterns"]

AdvancedOf(doc, key) ==
    CASE key = "behavioral_rules" ->
           doc.f["core_framework"].f["behavioral_rules"].f["advanced_rules"].f["rules"]
      [] key = "principles" ->
           doc.f["standards_and_principles"].f["advanced_principles"].f["principles"]
      [] key = "web_development" ->
           doc.f["development_domains"].f["web_development"].f["advanced_features"].f["features"]
      [] key = "design_system" ->
           doc.f["development_domains"].f["design_system"].f["advanced_design"].f["components"]
      [] key = "execution" ->
           doc.f["operational_framework"].f["execution"].f["advanced_execution"].f["patterns"]

\* The static allow-list of each split mapping, as the source spells it.
AllowList(key) ==
    CASE key = "behavioral_rules" ->
           {"approval_required", "full_internalization", "never_truncate_policy",
            "surgical_precision"}
      [] key = "web_development" ->
           {"responsive_design", "accessibility", "performance", "semantic_html",
            "css_architecture"}
      [] key = "design_system" ->
           {"typography", "color_system", "spacing", "component_library"}
      [] key = "execution" ->
           {"validation_gates", "error_handling", "rollback_mechanisms"}

\* essential and advanced partition the mapping M by the allow-list.
PartitionLaw(M, essential, advanced, allow) ==
    /\ essential.t = "dict"
    /\ advanced.t = "dict"
    /\ DOMAIN essential.f \cap DOMAIN advanced.f = {}
    /\ DOMAIN essential.f \cup DOMAIN advanced.f = DOMAIN M.f
    /\ \A k \in DOMAIN essential.f : essential.f[k] = M.f[k]
    /\ \A k \in DOMAIN advanced.f : advanced.f[k] = M.f[k]
    /\ DOMAIN essential.f = allow \cap DOMAIN M.f
    /\ Range(essential.k) = DOMAIN essential.f
    /\ Range(advanced.k) = DOMAIN advanced.f

\* C4 (as stated): for each split key whose source value is a mapping M, the
\* essential and the advanced part partition M by the key's allow-list.
C4_SplitPartitionOfSection ==
    Transformed("restructure_framework") =>
        \A key \in {"behavioral_rules", "web_development", "design_system", "execution"} :
            (key \in DOMAIN SourceDocument.f /\ SourceDocument.f[key].t = "dict") =>
                PartitionLaw(SourceDocument.f[key], EssentialOf(ret, key),
                             AdvancedOf(ret, key), AllowList(key))

\* C4 (amended): for web_development, design_system and execution whose
\* source value is a mapping M, the two parts partition M by the allow-list.
\* For behavioral_rules whose source value is a mapping M, the two parts
\* partition M["core_rules"] by the allow-list when M has a mapping under
\* "core_rules", and both are empty when M has no "core_rules" key; the
\* other keys of M are in neither part.
C4_SplitPartitionOfRules ==
    Transformed("restructure_framework") =>
        /\ \A key \in {"web_development", "design_system", "execution"} :
              (key \in DOMAIN SourceDocument.f /\ SourceDocument.f[key].t = "dict") =>
                  PartitionLaw(SourceDocument.f[key], EssentialOf(ret, key),
                               AdvancedOf(ret, key), AllowList(key))
        /\ ("behavioral_rules" \in DOMAIN SourceDocument.f
               /\ SourceDocument.f["behavioral_rules"].t = "dict") =>
              LET M == SourceDocument.f["behavioral_rules"]
              IN  IF "core_rules" \in DOMAIN M.f
                    THEN /\ M.f["core_rules"].t = "dict"
                         /\ PartitionLaw(M.f["core_rules"],
                                         EssentialOf(ret, "behavioral_rules"),
                                         AdvancedOf(ret, "behavioral_rules"),
                                         AllowList("behavioral_rules"))
                    ELSE /\ EssentialOf(ret, "behavioral_rules") = EmptyDict
                         /\ AdvancedOf(ret, "behavioral_rules") = EmptyDict

\* Witness of C4: a run that split a three-key web_development mapping into
\* two essential keys and one advanced key.
C4_Witness ==
    /\ Transformed("restructure_framework")
    /\ "web_development" \in DOMAIN SourceDocument.f
    /\ DOMAIN SourceDocument.f["web_development"].f =
          {"accessibility", "responsive_design", "pwa"}
    /\ DOMAIN EssentialOf(ret, "web_development").f = {"accessibility", "responsive_design"}
    /\ DOMAIN AdvancedOf(ret, "web_development").f = {"pwa"}

\* Witness of the behavioral_rules case of C4: a mapping with a non-empty
\* "core_rules" and another key, split into a non-empty essential and a
\* non-empty advanced part.
C4_WitnessRules ==
    /\ Transformed("restructure_framework")
    /\ "behavioral_rules" \in DOMAIN SourceDocument.f
    /\ DOMAIN SourceDocument.f["behavioral_rules"].f = {"core_rules", "advanced_rules"}
    /\ DOMAIN EssentialOf(ret, "behavioral_rules").f = {"approval_required"}
    /\ DOMAIN AdvancedOf(ret, "behavioral_rules").f = {"custom_rule"}

\* C5: for a principles list P of length L, the essential part is the first
\* min(7, L) elements of P in order, the advanced part is the other elements
\* in order, and essential followed by advanced is P.
C5_ListSplit ==
    Transformed("restructure_framework") =>
        (("principles" \in DOMAIN SourceDocument.f
             /\ SourceDocument.f["principles"].t = "list") =>
            LET P == SourceDocument.f["principles"].l
                L == Len(P)
                n == IF L < 7 THEN L ELSE 7
                essential == EssentialOf(ret, "principles")
                advanced == AdvancedOf(ret, "principles")
            IN  /\ essential.t = "list"
                /\ advanced.t = "list"
                /\ Len(essential.l) = n
                /\ \A i \in 1..n : essential.l[i] = P[i]
                /\ Len(advanced.l) = L - n
                /\ \A i \in 1..(L - n) : advanced.l[i] = P[n + i]
                /\ essential.l \o advanced.l = P)

\* Witness of C5: a run that split a list of more than 7 principles.
C5_Witness ==
    /\ Transformed("restructure_framework")
    /\ "principles" \in DOMAIN SourceDocument.f
    /\ SourceDocument.f["principles"].t = "list"
    /\ Len(SourceDocument.f["principles"].l) = 9
    /\ Len(EssentialOf(ret, "principles").l) = 7
    /\ Len(AdvancedOf(ret, "principles").l) = 2

\* The lengths 0, below 7 and exactly 7 are split too.
C5_WitnessShort ==
    /\ Transformed("restructure_framework")
    /\ "principles" \in DOMAIN SourceDocument.f
    /\ SourceDocument.f["principles"].t = "list"
    /\ Len(SourceDocument.f["principles"].l) = 7
    /\ AdvancedOf(ret, "principles") = EmptyList

\* C8 (as stated): no run of reorganize_framework or restructure_framework on
\* a JSON object fails because a key is absent from the source.
C8_MissingKeysNotFatal ==
    (pc = "done" /\ prog \in {"reorganize_framework", "restructure_framework"}) =>
        raised # "KeyError"

\* A run of a transformer that takes the process from start to exit.
Run == pc = "start" /\ pc' = "done"

\* C9 (as stated): for every pair of paths, the same file included, the
\* input file's content after the run is its content before the run, and the
\* output file holds the full new document.
C9_SourceNeverMutated ==
    [][Run =>
          /\ Len(argv) = 2 => fs'[argv[1]] = fs[argv[1]]
          /\ (Len(argv) = 2 /\ raised' = "none") =>
                fs'[argv[2]] = [st |-> "json", doc |-> ret']]_vars

\* C9 (amended): when the two paths name different files, the input file's
\* content after the run is its content before the run; in every run that
\* built the new document the output file holds the full new document, so
\* when both paths name the same file the source content is replaced by it.
C9_SourceKeptWhenPathsDiffer ==
    [][Run =>
          /\ (Len(argv) = 2 /\ argv[1] # argv[2]) => fs'[argv[1]] = fs[argv[1]]
          /\ (Len(argv) = 2 /\ raised' = "none") =>
                /\ ret' # JNull
                /\ fs'[argv[2]] = [st |-> "json", doc |-> ret']]_vars

\* Witness of C9: a finished run with different paths whose output file holds
\* the new document, which is not the source document.
C9_Witness ==
    /\ pc = "done"
    /\ Len(argv) = 2
    /\ argv[1] # argv[2]
    /\ raised = "none"
    /\ ret.t = "dict"
    /\ fs[argv[2]] = [st |-> "json", doc |-> ret]
    /\ fs[argv[1]].st = "json"
    /\ fs[argv[1]].doc # ret

\* The same-file case: the one file holds the new document after the run.
C9_WitnessSameFile ==
    /\ pc = "done"
    /\ Len(argv) = 2
    /\ argv[1] = argv[2]
    /\ raised = "none"
    /\ ret.t = "dict"
    /\ fs[argv[1]] = [st |-> "json", doc |-> ret]

(***************************************************************************)
(* validate_reorganization applied to any pair of JSON objects.            *)
(***************************************************************************)
MaxGroupKeys == 2

SourceKeyNames == {"meta", "core", "principles", "legacy_section"}

TargetKeyNames == {"description", "core", "principles", "invented"}

ValidationSources ==
    {JDict(keys, [k \in Range(keys) |-> JStr(k)]) :
        keys \in {sq \in OrderedSubsets(SourceKeyNames, 4) :
                     \A i, j \in 1..Len(sq) : i < j =>
                         \/ sq[i] = "meta"
                         \/ (sq[i] = "core" /\ sq[j] # "meta")
                         \/ (sq[i] = "principles" /\ sq[j] = "legacy_section")}}

\* What a top-level key of the target may hold: a mapping over at most
\* MaxGroupKeys keys, or a value that is no mapping.
GroupValues ==
    {JDict(keys, [k \in Range(keys) |-> JStr(k)]) :
        keys \in {sq \in OrderedSubsets(TargetKeyNames, MaxGroupKeys) :
                     \A i, j \in 1..Len(sq) : i < j =>
                         \/ sq[i] = "description"
                         \/ (sq[i] = "core" /\ sq[j] # "description")
                         \/ (sq[i] = "principles" /\ sq[j] = "invented")}}
    \cup {JList(<<JStr("core")>>), JStr("principles")}

ValidationTargets ==
    {JDict(SelectSeq(<<"meta", "group_a", "group_b">>, LAMBDA k : o[k].present),
           [k \in {x \in {"meta", "group_a", "group_b"} : o[x].present} |-> o[k].val]) :
        o \in {x \in [{"meta", "group_a", "group_b"} ->
                         {Absent} \cup {Present(g) : g \in GroupValues}] :
                  x["meta"] \in {Absent, Present(JStr("principles")),
                                 Present(SampleDict(<<"core", "invented">>))}}}

InitValidate ==
    /\ prog = "validate_reorganization"
    /\ argv = <<"in.json", "out.json">>
    /\ \E o \in ValidationSources, r \in ValidationTargets :
          fs = [p \in Paths |-> IF p = "in.json" THEN json_dump(o) ELSE json_dump(r)]
    /\ pc = "start"
    /\ exit = -1
    /\ ret = JNull
    /\ report = NoReport
    /\ raised = "none"
    /\ cmds = <<>>
    /\ locals = NoLocals

\* A call validate_reorganization(argv[1], argv[2]).
ValidateCall ==
    /\ prog = "validate_reorganization"
    /\ pc = "start"
    /\ pc' = "done"
    /\ LET v == validate_reorganization(fs, argv[1], argv[2])
       IN  /\ raised' = v.err
           /\ report' = v.rep
    /\ UNCHANGED <<prog, argv, fs, exit, ret, cmds, locals>>

SpecValidate == InitValidate /\ [][ValidateCall]_vars

\* The sets of the completeness check, read off the two files.
OriginalKeys == DOMAIN fs["in.json"].doc.f \ {"meta"}

RecoveredKeys ==
    {k \in TargetKeyNames \cup SourceKeyNames :
        k \notin {"description", "reveal_on", "complexity"}
        /\ \E g \in DOMAIN fs["out.json"].doc.f \ {"meta"} :
              /\ fs["out.json"].doc.f[g].t = "dict"
              /\ k \in DOMAIN fs["out.json"].doc.f[g].f}

\* C7: validate_reorganization returns False exactly when a key of the source
\* (other than "meta") is missing from the recovered keys or a recovered key
\* is extra, and True exactly when there is neither.
C7_CheckerVerdict ==
    (prog = "validate_reorganization" /\ pc = "done") =>
        /\ report.ran
        /\ report.missing = OriginalKeys \ RecoveredKeys
        /\ report.extra = RecoveredKeys \ OriginalKeys
        /\ report.result =
              (OriginalKeys \ RecoveredKeys = {} /\ RecoveredKeys \ OriginalKeys = {})

\* Witnesses of C7: a verdict True on a non-empty key set, a verdict False
\* with only extra keys, and one with only missing keys.
C7_Witness ==
    /\ prog = "validate_reorganization"
    /\ pc = "done"
    /\ report.result = TRUE
    /\ OriginalKeys = {"core", "principles"}
    /\ "meta" \in DOMAIN fs["out.json"].doc.f

C7_WitnessExtra ==
    /\ prog = "validate_reorganization"
    /\ pc = "done"
    /\ report.result = FALSE
    /\ report.missing = {}
    /\ report.extra = {"invented"}

C7_WitnessMissing ==
    /\ prog = "validate_reorganization"
    /\ pc = "done"
    /\ report.result = FALSE
    /\ report.missing = {"legacy_section"}
    /\ report.extra = {}

(***************************************************************************)
(* framework_self_validation.py                                            *)
(***************************************************************************)

\* The text json.dumps writes for a document holds every key and every
\* string value between double quotes.  A pattern that starts and ends with
\* a double quote occurs once for each key or string value equal to the text
\* between its quotes; a pattern without quotes occurs once in each key or
\* string value that contains it (the strings of the sample documents
\* contain a pattern at most once).
QuotedPatterns ==
    {"\"reveal_on\"", "\"essential_first\"", "\"complexity\"", "\"required\"",
     "\"mandatory\"", "\"essential\"", "\"self_validated\"",
     "\"validation_framework\"", "\"auto_applies\""}

Unquoted(pattern) ==
    CASE pattern = "\"reveal_on\"" -> "reveal_on"
      [] pattern = "\"essential_first\"" -> "essential_first"
      [] pattern = "\"complexity\"" -> "complexity"
      [] pattern = "\"required\"" -> "required"
      [] pattern = "\"mandatory\"" -> "mandatory"
      [] pattern = "\"essential\"" -> "essential"
      [] pattern = "\"self_validated\"" -> "self_validated"
      [] pattern = "\"validation_framework\"" -> "validation_framework"
      [] pattern = "\"auto_applies\"" -> "auto_applies"

\* The strings of the sample documents that contain an unquoted pattern.
Containing(pattern) ==
    CASE pattern = "health_check" ->
           {"health_check", "health_checks", "framework_health_checks"}
      [] pattern = "validation_required" -> {"validation_required"}
      [] pattern = "error_handling" -> {"error_handling"}
      [] pattern = "@ref:" -> {"@ref:modules/behavioral-rules.json"}
      [] OTHER -> {}

\* The occurrences of `pattern` in the quoted string "s" of the text.
Occurrences(pattern, str) ==
    IF pattern \in QuotedPatterns
      THEN IF str = Unquoted(pattern) THEN 1 ELSE 0
      ELSE IF str \in Containing(pattern) THEN 1 ELSE 0

\* json.dumps(value).count(pattern)
RECURSIVE count(_, _)
RECURSIVE CountItems(_, _, _)
RECURSIVE CountElements(_, _, _)
CountItems(v, pattern, i) ==
    IF i > Len(v.k) THEN 0
    ELSE Occurrences(pattern, v.k[i]) + count(v.f[v.k[i]], pattern)
         + CountItems(v, pattern, i + 1)

CountElements(v, pattern, i) ==
    IF i > Len(v.l) THEN 0
    ELSE count(v.l[i], pattern) + CountElements(v, pattern, i + 1)

count(v, pattern) ==
    CASE v.t = "dict" -> CountItems(v, pattern, 1)
      [] v.t = "list" -> CountElements(v, pattern, 1)
      [] v.t = "str"  -> Occurrences(pattern, v.s)
      [] OTHER        -> 0

\* The 7+-2 limit of validate_cognitive_load.
CognitiveLimit == 9

\* The occurrence threshold of validate_dry_compliance.
DryThreshold == 10

\* The number of indicators validate_self_enforcement asks for.
EnforcementThreshold == 2

\* len(value.keys()) of a dict, len(value) of a list.
Size(v) == IF IsDict(v) THEN Len(v.k) ELSE IF IsList(v) THEN Len(v.l) ELSE 0

cognitive_violations_AtLimit(framework_data) ==
    (IF Len(framework_data.k) >= CognitiveLimit
       THEN << [location |-> "root", count |-> Len(framework_data.k)] >>
       ELSE <<>>)
    \o [i \in 1..Len(SelectSeq(framework_data.k,
                               LAMBDA key : Size(framework_data.f[key]) >= CognitiveLimit)) |->
          LET key == SelectSeq(framework_data.k,
                               LAMBDA x : Size(framework_data.f[x]) >= CognitiveLimit)[i]
          IN  [location |-> key, count |-> Size(framework_data.f[key])]]

\* validate_cognitive_load: the violations, the root's first, then one for
\* each top-level key in document order.
cognitive_violations(framework_data) ==
    (IF Len(framework_data.k) > CognitiveLimit
       THEN << [location |-> "root", count |-> Len(framework_data.k)] >>
       ELSE <<>>)
    \o [i \in 1..Len(SelectSeq(framework_data.k,
                               LAMBDA key : Size(framework_data.f[key]) > CognitiveLimit)) |->
          LET key == SelectSeq(framework_data.k,
                               LAMBDA x : Size(framework_data.f[x]) > CognitiveLimit)[i]
          IN  [location |-> key, count |-> Size(framework_data.f[key])]]

validate_cognitive_load(framework_data) ==
    [compliant |-> Len(cognitive_violations(framework_data)) = 0,
     violations |-> cognitive_violations(framework_data)]

validate_progressive_disclosure(framework_data) ==
    LET reveal_on_count == count(framework_data, "\"reveal_on\"")
        essential_first_count == count(framework_data, "\"essential_first\"")
        complexity_indicators == count(framework_data, "\"complexity\"")
    IN  [compliant |-> reveal_on_count > 0 \/ essential_first_count > 0,
         patterns_found |-> [reveal_on |-> reveal_on_count,
                             essential_first |-> essential_first_count,
                             complexity_indicators |-> complexity_indicators]]

DryPatterns ==
    <<"\"required\"", "\"mandatory\"", "validation_required", "error_handling", "\"essential\"">>

validate_dry_compliance(framework_data) ==
    LET violating == SelectSeq(DryPatterns,
                               LAMBDA pat : count(framework_data, pat) > DryThreshold)
    IN  [compliant |-> Len(violating) = 0,
         violations |-> violating]

validate_self_enforcement_AnyIndicator(framework_data) ==
    LET indicators ==
            [self_validated |-> count(framework_data, "\"self_validated\"") > 0,
             health_checks |-> count(framework_data, "health_check") > 0,
             validation_framework |-> count(framework_data, "\"validation_framework\"") > 0,
             auto_applies |-> count(framework_data, "\"auto_applies\"") > 0]
        found == Cardinality({name \in DOMAIN indicators : indicators[name]})
    IN  [compliant |-> found >= 1,
         indicators |-> indicators]

validate_self_enforcement(framework_data) ==
    LET indicators ==
            [self_validated |-> count(framework_data, "\"self_validated\"") > 0,
             health_checks |-> count(framework_data, "health_check") > 0,
             validation_framework |-> count(framework_data, "\"validation_framework\"") > 0,
             auto_applies |-> count(framework_data, "\"auto_applies\"") > 0]
        found == Cardinality({name \in DOMAIN indicators : indicators[name]})
    IN  [compliant |-> found >= EnforcementThreshold,
         indicators |-> indicators]

\* run_comprehensive_validation: the four checks and the overall compliance.
\* framework_data.get("meta", {}).get(...) raises AttributeError when
\* framework_data or its "meta" value is no dict.
run_comprehensive_validation(framework_data) ==
    IF ~IsDict(framework_data) \/ ~IsDict(get(framework_data, "meta", EmptyDict))
      THEN [err |-> "AttributeError", results |-> NoReport]
    ELSE LET cognitive_load == validate_cognitive_load(framework_data)
             progressive_disclosure == validate_progressive_disclosure(framework_data)
             dry_compliance == validate_dry_compliance(framework_data)
             self_enforcement == validate_self_enforcement(framework_data)
             compliance_scores == <<cognitive_load.compliant,
                                    progressive_disclosure.compliant,
                                    dry_compliance.compliant,
                                    self_enforcement.compliant>>
         IN  [err |-> "none",
              results |->
                [ran |-> TRUE,
                 cognitive_load |-> cognitive_load,
                 progressive_disclosure |-> progressive_disclosure,
                 dry_compliance |-> dry_compliance,
                 self_enforcement |-> self_enforcement,
                 overall_compliance |->
                    [passing |-> \A i \in 1..Len(compliance_scores) : compliance_scores[i],
                     areas_needing_improvement |->
                        Cardinality({i \in 1..Len(compliance_scores) :
                                        ~compliance_scores[i]})]]]

\* Mutant of self_validation_status: 0 whatever the results say.
self_validation_status_AlwaysPasses(results) == 0

\* The return value of main() once the results are there.
self_validation_status(results) ==
    IF results.overall_compliance.passing THEN 0 ELSE 1

\* python3 framework_self_validation.py <prompts.json>
SelfValidationMain ==
    /\ prog = "framework_self_validation"
    /\ pc = "start"
    /\ pc' = "done"
    /\ UNCHANGED <<prog, argv, fs, ret, cmds, locals>>
    /\ IF Len(argv) # 1
         THEN /\ exit' = 1
              /\ UNCHANGED <<report, raised>>
       ELSE LET loaded == json_load(fs[argv[1]])
                r == run_comprehensive_validation(loaded.val)
            IN  IF loaded.err # "none"
                  THEN \* _load_framework raises ValueError; main returns 1
                       /\ raised' = "ValueError"
                       /\ exit' = 1
                       /\ UNCHANGED report
                ELSE IF r.err # "none"
                  THEN /\ raised' = r.err
                       /\ exit' = 1
                       /\ UNCHANGED report
                ELSE /\ raised' = "none"
                     /\ report' = r.results
                     /\ exit' = self_validation_status(r.results)

(***************************************************************************)
(* Documents for framework_self_validation: a small baseline document with *)
(* any set of disclosure markers and enforcement indicators, and one       *)
(* structural variation: the number of top-level keys, of keys of a        *)
(* section, of elements of a list (at the top or nested), of repetitions   *)
(* of a pattern, each at the limit and past it by up to MaxOver.           *)
(***************************************************************************)
MaxOver == 1

Numbered(prefix, n) == [i \in 1..n |-> prefix \o ToString(i)]

\* A mapping with n keys, a list with n elements, a list of n copies.
WideDict(n) == SampleDict(Numbered("item_", n))

LongList(n) == JList([i \in 1..n |-> JNum(i)])

Repeated(str, n) == JList([i \in 1..n |-> JStr(str)])

DisclosureMarkers == <<"reveal_on", "essential_first", "complexity">>

EnforcementMarkers ==
    <<"self_validated", "framework_health_checks", "validation_framework",
      "auto_applies", "auto_applies_to">>

Sizes(limit) == {limit + d : d \in 0..MaxOver}

\* The structural variations: [kind, n].
Variations ==
    {[kind |-> "plain", n |-> 0], [kind |-> "no_meta", n |-> 0],
     [kind |-> "meta_string", n |-> 0]}
    \cup {[kind |-> k, n |-> n] :
            k \in {"top_level", "wide_section", "long_list", "nested_list"},
            n \in Sizes(CognitiveLimit)}
    \cup {[kind |-> k, n |-> n] :
            k \in {"required", "error_handling"}, n \in Sizes(DryThreshold)}

SelfValidationDoc(markers, indicators, variation) ==
    LET base == (IF variation.kind = "no_meta" THEN <<>> ELSE <<"meta">>)
                \o <<"disclosure", "enforcement">>
        extra == CASE variation.kind = "top_level" ->
                        Numbered("section_", variation.n - Len(base))
                   [] variation.kind \in {"plain", "no_meta", "meta_string"} -> <<>>
                   [] OTHER -> <<"varied">>
        varied == CASE variation.kind = "wide_section" -> WideDict(variation.n)
                    [] variation.kind = "long_list" -> LongList(variation.n)
                    [] variation.kind = "nested_list" ->
                         JObj(<< <<"values", LongList(variation.n)>> >>)
                    [] variation.kind = "required" ->
                         JObj(<< <<"fields", JObj(<< <<"a", Repeated("required", 5)>>,
                                                     <<"b", Repeated("required", variation.n - 5)>> >>)>> >>)
                    [] variation.kind = "error_handling" ->
                         JObj(<< <<"fields", JObj(<< <<"a", Repeated("error_handling", 5)>>,
                                                     <<"b", Repeated("error_handling", variation.n - 5)>> >>)>> >>)
                    [] OTHER -> JNull
        keys == base \o extra
    IN  JDict(keys,
              [key \in Range(keys) |->
                 CASE key = "meta" ->
                        IF variation.kind = "meta_string" THEN JStr("v38")
                        ELSE JObj(<< <<"version", JStr("38.0.0")>> >>)
                   [] key = "disclosure" ->
                        SampleDict(SelectSeq(DisclosureMarkers, LAMBDA m : m \in markers))
                   [] key = "enforcement" ->
                        SampleDict(SelectSeq(EnforcementMarkers, LAMBDA m : m \in indicators))
                   [] key = "varied" -> varied
                   [] OTHER -> SampleDict(<<"note">>)])

SelfValidationDocs ==
    {SelfValidationDoc(markers, indicators, variation) :
        markers \in SUBSET Range(DisclosureMarkers),
        indicators \in SUBSET Range(EnforcementMarkers),
        variation \in Variations}

InitSelfValidation ==
    /\ prog = "framework_self_validation"
    /\ argv \in {<<"in.json">>, <<>>, <<"in.json", "out.json">>}
    /\ \E i \in {json_dump(d) : d \in SelfValidationDocs}
                \cup {json_dump(JList(<<JStr("x")>>)), Garbage, NoFile} :
          fs = [p \in Paths |-> IF p = "in.json" THEN i ELSE NoFile]
    /\ pc = "start"
    /\ exit = -1
    /\ ret = JNull
    /\ report = NoReport
    /\ raised = "none"
    /\ cmds = <<>>
    /\ locals = NoLocals

SpecSelfValidation == InitSelfValidation /\ [][SelfValidationMain]_vars

(***************************************************************************)
(* comprehensive_validation.py                                             *)
(***************************************************************************)
Exists(files, path) == files[path].st # "missing"

\* validate_json_file: the parsed data, None (null) on any exception.
validate_json_file(files, filepath) ==
    LET loaded == json_load(files[filepath])
    IN  IF loaded.err # "none" THEN JNull ELSE loaded.val

\* config.get('meta', {}).get('version', 'unknown')
VersionOf(config) ==
    IF ~IsDict(config) THEN Raise("AttributeError")
    ELSE IF ~IsDict(get(config, "meta", EmptyDict)) THEN Raise("AttributeError")
    ELSE Ok(get(get(config, "meta", EmptyDict), "version", JStr("unknown")))

\* len(main_config.get('meta', {}).get('consolidation_summary', {})
\*         .get('features_added', []))
FeaturesOf(config) ==
    LET summary == get(get(config, "meta", EmptyDict), "consolidation_summary", EmptyDict)
        features == get(summary, "features_added", EmptyList)
    IN  IF ~IsDict(summary) THEN Raise("AttributeError")
        ELSE IF features.t \in {"null", "num", "bool"} THEN Raise("TypeError")
        ELSE Ok(features)

validate_framework_components(files) ==
    LET main_config == validate_json_file(files, "prompts.json")
        v37_config == validate_json_file(files, "prompts-v37.json")
    IN  IF ~Truthy(main_config) \/ ~Truthy(v37_config) THEN Ok(FALSE)
        ELSE IF FirstErr(<<VersionOf(main_config), VersionOf(v37_config),
                           FeaturesOf(main_config)>>) # "none"
          THEN Raise(FirstErr(<<VersionOf(main_config), VersionOf(v37_config),
                                FeaturesOf(main_config)>>))
        ELSE Ok(TRUE)

expected_modules ==
    <<"modules/behavioral-rules.json", "modules/universal-standards.json",
      "modules/workflow-engine.json", "modules/quality-gates.json">>

expected_plugins ==
    <<"plugins/web-development.json", "plugins/design-system.json",
      "plugins/business-strategy.json", "plugins/ai-enhancement.json">>

\* `if not data: modules_valid = False` over a list of expected files.
AllData(files, expected) ==
    \A i \in 1..Len(expected) : Truthy(validate_json_file(files, expected[i]))

validate_modular_system(files) ==
    IF ~Exists(files, "modules") THEN FALSE
    ELSE IF ~Exists(files, "plugins") THEN FALSE
    ELSE AllData(files, expected_modules) /\ AllData(files, expected_plugins)

key_files ==
    <<"brgen_app/Gemfile", "brgen_app/config/routes.rb", "brgen_app/app/models/user.rb",
      "brgen_app/app/controllers/application_controller.rb">>

validate_rails_application(files) ==
    IF ~Exists(files, "brgen_app") THEN FALSE
    ELSE /\ \A i \in 1..Len(key_files) : Exists(files, key_files[i])
         /\ Exists(files, "brgen_app/test")

validate_rails_directory(files) ==
    IF ~Exists(files, "rails") THEN FALSE
    ELSE IF Exists(files, "rails/brgen") THEN TRUE
    ELSE FALSE

doc_files ==
    <<"COMPREHENSIVE_INTEGRATION_REPORT.md", "CONSOLIDATION_SUMMARY.md",
      "FRAMEWORK_V37_VALIDATION_REPORT.md", "MASTER_FRAMEWORK_V37_INTEGRATION_GUIDE.md",
      "BEFORE_AFTER_COMPARISON.md", "REFACTORING_SUMMARY.md">>

validate_documentation(files) ==
    \A i \in 1..Len(doc_files) : Exists(files, doc_files[i])

comprehensive_status_IgnoresDocumentation(validations) ==
    IF \A i \in 1..(Len(validations) - 1) : validations[i] THEN 0 ELSE 1

\* The return value of main() once the validations list is there.
comprehensive_status(validations) ==
    IF \A i \in 1..Len(validations) : validations[i] THEN 0 ELSE 1

\* python3 comprehensive_validation.py
ComprehensiveMain ==
    /\ prog = "comprehensive_validation"
    /\ pc = "start"
    /\ pc' = "done"
    /\ UNCHANGED <<prog, argv, fs, ret, cmds, locals>>
    /\ LET components == validate_framework_components(fs)
           validations == <<components.val,
                            validate_modular_system(fs),
                            validate_rails_application(fs),
                            validate_rails_directory(fs),
                            validate_documentation(fs)>>
       IN  IF components.err # "none"
             THEN \* the exception leaves main(): traceback, exit status 1
                  /\ raised' = components.err
                  /\ exit' = 1
                  /\ UNCHANGED report
             ELSE /\ raised' = "none"
                  /\ report' = [ran |-> TRUE, validations |-> validations]
                  /\ exit' = comprehensive_status(validations)

(***************************************************************************)
(* The working directory of comprehensive_validation: the complete tree,   *)
(* with at most MaxFaults of its entries missing or holding something      *)
(* else.  What is below a missing directory is missing too.                *)
(***************************************************************************)
MaxFaults == 2

TreeSeq ==
    <<"prompts.json", "prompts-v37.json", "modules", "plugins", "brgen_app",
      "brgen_app/test", "rails", "rails/brgen">>
    \o expected_modules \o expected_plugins \o key_files \o doc_files

TreePaths == Range(TreeSeq)

Parent(path) ==
    CASE path \in Range(expected_modules) -> "modules"
      [] path \in Range(expected_plugins) -> "plugins"
      [] path \in Range(key_files) \cup {"brgen_app/test"} -> "brgen_app"
      [] path = "rails/brgen" -> "rails"
      [] OTHER -> ""

GoodConfig ==
    JObj(<< <<"meta", JObj(<< <<"version", JStr("38.0.0")>>,
                              <<"consolidation_summary",
                                JObj(<< <<"features_added", JList(<<JStr("f1")>>)>> >>)>> >>)>>,
            <<"core", SampleDict(<<"name">>)>> >>)

GoodEntry(path) ==
    CASE path \in {"modules", "plugins", "brgen_app", "brgen_app/test", "rails", "rails/brgen"} ->
           Directory
      [] path \in {"prompts.json", "prompts-v37.json"} -> json_dump(GoodConfig)
      [] path \in Range(expected_modules) \cup Range(expected_plugins) ->
           json_dump(SampleDict(<<"name">>))
      [] OTHER -> Garbage

\* What a faulty entry holds instead.
FaultyEntries(path) ==
    CASE path \in {"prompts.json", "prompts-v37.json"} ->
           <<NoFile, Garbage, json_dump(EmptyDict), json_dump(JList(<<JStr("x")>>)),
             json_dump(JObj(<< <<"meta", JStr("v38")>> >>)),
             json_dump(JObj(<< <<"meta", JObj(<< <<"consolidation_summary",
                  JObj(<< <<"features_added", JNum(3)>> >>)>> >>)>> >>))>>
      [] path \in Range(expected_modules) \cup Range(expected_plugins) ->
           <<NoFile, Garbage, json_dump(EmptyDict), json_dump(EmptyList)>>
      [] OTHER -> <<NoFile>>

\* The choices of at most MaxFaults faulty entries: their positions in
\* TreeSeq in increasing order (0: no entry), and which faulty content each
\* of them gets.
FaultPositions ==
    {at \in [1..MaxFaults -> 0..Len(TreeSeq)] :
        \A i, j \in 1..MaxFaults : i < j => (at[i] = 0 \/ at[i] < at[j])}

FaultContents(at) ==
    {alt \in [1..MaxFaults -> 1..Len(FaultyEntries("prompts.json"))] :
        \A i \in 1..MaxFaults :
            IF at[i] = 0 THEN alt[i] = 1
            ELSE alt[i] <= Len(FaultyEntries(TreeSeq[at[i]]))}

Tree(at, alt) ==
    LET faulty(path) == {i \in 1..MaxFaults : at[i] # 0 /\ TreeSeq[at[i]] = path}
        entry(path) == IF faulty(path) = {} THEN GoodEntry(path)
                       ELSE FaultyEntries(path)[alt[CHOOSE i \in faulty(path) : TRUE]]
    IN  [path \in TreePaths |->
            IF Parent(path) # "" /\ entry(Parent(path)).st = "missing" THEN NoFile
            ELSE entry(path)]

InitComprehensive ==
    /\ prog = "comprehensive_validation"
    /\ argv = <<>>
    /\ \E at \in FaultPositions : \E alt \in FaultContents(at) : fs = Tree(at, alt)
    /\ pc = "start"
    /\ exit = -1
    /\ ret = JNull
    /\ report = NoReport
    /\ raised = "none"
    /\ cmds = <<>>
    /\ locals = NoLocals

SpecComprehensive == InitComprehensive /\ [][ComprehensiveMain]_vars

(***************************************************************************)
(* validate_consolidation.py                                               *)
(***************************************************************************)
required_sections ==
    <<"file_policy", "core_restrictions", "behavioral_rules", "universal_standards",
      "design_system", "web_development", "business_strategy",
      "autonomous_operation", "execution", "design_intelligence">>

\* The checks of validate_consolidation on the parsed document, from the
\* required sections on.  `section not in data` raises TypeError on a
\* number, a boolean or null; .get raises AttributeError on anything that
\* is no dict.
consolidation_checks(data) ==
    LET found == [i \in 1..Len(required_sections) |-> py_in(required_sections[i], data)]
        missing == {i \in 1..Len(required_sections) : ~found[i].val}
        file_policy == get(data, "file_policy", EmptyDict)
        restrictions == get(file_policy, "file_creation_restrictions", EmptyDict)
        core_restrictions == get(data, "core_restrictions", EmptyDict)
        immutable_rules == get(core_restrictions, "immutable_rules", EmptyList)
        approval == py_in("file_creation_requires_explicit_approval", immutable_rules)
        behavioral_rules == get(data, "behavioral_rules", EmptyDict)
        core_rules == get(behavioral_rules, "core_rules", EmptyDict)
        approval_required == py_in("approval_required", core_rules)
        never_truncate_policy == py_in("never_truncate_policy", core_rules)
    IN  IF FirstErr(found) # "none" THEN Raise(FirstErr(found))
        ELSE IF missing # {} THEN Ok(FALSE)
        ELSE IF ~IsDict(data) \/ ~IsDict(file_policy) \/ ~IsDict(restrictions)
          THEN Raise("AttributeError")
        ELSE IF get(restrictions, "status", JNull) # JStr("FORBIDDEN") THEN Ok(FALSE)
        ELSE IF ~IsDict(core_restrictions) THEN Raise("AttributeError")
        ELSE IF approval.err # "none" THEN Raise(approval.err)
        ELSE IF ~approval.val THEN Ok(FALSE)
        ELSE IF ~IsDict(behavioral_rules) THEN Raise("AttributeError")
        ELSE IF approval_required.err # "none" THEN Raise(approval_required.err)
        ELSE IF ~approval_required.val THEN Ok(FALSE)
        ELSE IF ~never_truncate_policy.val THEN Ok(FALSE)
        ELSE Ok(TRUE)

\* validate_consolidation(): False when prompts.json is missing, does not
\* parse or holds "@ref:"; only JSONDecodeError is caught.
validate_consolidation(files) ==
    LET loaded == json_load(files["prompts.json"])
    IN  IF ~Exists(files, "prompts.json") THEN Ok(FALSE)
        ELSE IF loaded.err = "JSONDecodeError" THEN Ok(FALSE)
        ELSE IF loaded.err # "none" THEN Raise(loaded.err)
        ELSE IF count(loaded.val, "@ref:") > 0 THEN Ok(FALSE)
        ELSE consolidation_checks(loaded.val)

\* python3 validate_consolidation.py: sys.exit(0 if success else 1); an
\* exception leaves the script with a traceback and exit status 1.
ConsolidationMain ==
    /\ prog = "validate_consolidation"
    /\ pc = "start"
    /\ pc' = "done"
    /\ UNCHANGED <<prog, argv, fs, ret, cmds, locals>>
    /\ LET success == validate_consolidation(fs)
       IN  IF success.err # "none"
             THEN /\ raised' = success.err
                  /\ exit' = 1
                  /\ UNCHANGED report
             ELSE /\ raised' = "none"
                  /\ report' = [ran |-> TRUE, result |-> success.val]
                  /\ exit' = IF success.val THEN 0 ELSE 1

(***************************************************************************)
(* The prompts.json validate_consolidation reads: the complete document,   *)
(* with any one choice for each of the three sections it looks into, with  *)
(* or without a required section missing and an "@ref:" string; and        *)
(* documents that are no mapping.                                          *)
(***************************************************************************)
FilePolicies ==
    {JObj(<< <<"file_creation_restrictions", JObj(<< <<"status", JStr("FORBIDDEN")>> >>)>> >>),
     JObj(<< <<"file_creation_restrictions", JObj(<< <<"status", JStr("ALLOWED")>> >>)>> >>),
     JObj(<< <<"file_creation_restrictions", EmptyDict>> >>),
     JObj(<< <<"file_creation_restrictions", JStr("FORBIDDEN")>> >>),
     EmptyDict,
     JStr("FORBIDDEN")}

CoreRestrictions ==
    {JObj(<< <<"immutable_rules",
               JList(<<JStr("no_truncation"),
                       JStr("file_creation_requires_explicit_approval")>>)>> >>),
     JObj(<< <<"immutable_rules", JList(<<JStr("no_truncation")>>)>> >>),
     JObj(<< <<"immutable_rules", JStr("file_creation_requires_explicit_approval")>> >>),
     JObj(<< <<"immutable_rules", SampleDict(<<"file_creation_requires_explicit_approval">>)>> >>),
     JObj(<< <<"immutable_rules", JNum(1)>> >>),
     EmptyDict,
     EmptyList}

BehavioralRules ==
    {JObj(<< <<"core_rules", SampleDict(<<"approval_required", "never_truncate_policy">>)>> >>),
     JObj(<< <<"core_rules", SampleDict(<<"approval_required">>)>> >>),
     JObj(<< <<"core_rules", SampleDict(<<"never_truncate_policy">>)>> >>),
     JObj(<< <<"core_rules",
               JList(<<JStr("approval_required"), JStr("never_truncate_policy")>>)>> >>),
     JObj(<< <<"core_rules", JNull>> >>),
     EmptyDict,
     JNull}

ConsolidatedConfig(file_policy, core_restrictions, behavioral_rules, absent, refs) ==
    LET keys == SelectSeq(required_sections, LAMBDA key : key \notin absent)
                \o (IF refs THEN <<"modules">> ELSE <<>>)
    IN  JDict(keys,
              [key \in Range(keys) |->
                 CASE key = "file_policy" -> file_policy
                   [] key = "core_restrictions" -> core_restrictions
                   [] key = "behavioral_rules" -> behavioral_rules
                   [] key = "modules" ->
                        JList(<<JStr("@ref:modules/behavioral-rules.json")>>)
                   [] OTHER -> SampleDict(<<"name">>)])

ConsolidationDocs ==
    {ConsolidatedConfig(file_policy, core_restrictions, behavioral_rules, absent, refs) :
        file_policy \in FilePolicies,
        core_restrictions \in CoreRestrictions,
        behavioral_rules \in BehavioralRules,
        absent \in {{}, {"file_policy"}, {"design_intelligence"},
                    {"core_restrictions", "execution"}},
        refs \in BOOLEAN}
    \cup {GoodConfig, EmptyDict, EmptyList, JList(<<JStr("x")>>),
          JList([i \in 1..Len(required_sections) |-> JStr(required_sections[i])]),
          JStr("consolidated"), JStr("file_policy"), JNum(5), JBool(TRUE), JNull}

InitConsolidation ==
    /\ prog = "validate_consolidation"
    /\ argv = <<>>
    /\ \E file \in {json_dump(d) : d \in ConsolidationDocs} \cup {NoFile, Garbage, Directory} :
          fs = [p \in {"prompts.json"} |-> file]
    /\ pc = "start"
    /\ exit = -1
    /\ ret = JNull
    /\ report = NoReport
    /\ raised = "none"
    /\ cmds = <<>>
    /\ locals = NoLocals

SpecConsolidation == InitConsolidation /\ [][ConsolidationMain]_vars

(***************************************************************************)
(* cleanup_repository.py                                                   *)
(*                                                                         *)
(* Every git command the script runs is one step.  A command ends in one   *)
(* of three ways: "ok" (exit status 0), "fail" (a non-zero exit status:    *)
(* subprocess.run raises CalledProcessError, which run_command catches and *)
(* RETURNS), or "raise" (subprocess.run raises something else, e.g. git is *)
(* not installed, and run_command lets it through).                        *)
(***************************************************************************)
Outcomes == {"ok", "fail", "raise"}

\* run_command: what the caller gets.  `raised` tells an exception left
\* run_command; otherwise the returned object has a returncode and the
\* captured stdout (CalledProcessError has both, too).
run_command(outcome, stdout) ==
    [raised |-> outcome = "raise",
     returncode_zero |-> outcome = "ok",
     stdout |-> IF outcome = "raise" THEN <<>> ELSE stdout]

\* The entry of `cmds` for a command that was run.
Ran(cmd, outcome, stdout) == [cmd |-> cmd, outcome |-> outcome, stdout |-> stdout]

\* The four checkout commands of switch_to_main_branch, in the order tried.
CheckoutCommands ==
    << <<"git", "checkout", "main">>,
       <<"git", "checkout", "master">>,
       <<"git", "checkout", "-b", "main", "origin/main">>,
       <<"git", "checkout", "-b", "main", "origin/master">> >>

\* Does the n-th attempt of switch_to_main_branch return a branch name?  The
\* first two test result.returncode == 0; the last two return 'main' as soon
\* as run_command returned anything.
switch_returns(n, result) ==
    IF result.raised THEN FALSE
    ELSE IF n <= 2 THEN result.returncode_zero
    ELSE TRUE

\* The name the n-th attempt returns.
switch_branch(n) == IF n = 2 THEN "master" ELSE "main"

\* One attempt of switch_to_main_branch, and what main() does with None.
SwitchToMainBranch(outcome) ==
    /\ prog = "cleanup_repository"
    /\ pc = "checkout"
    /\ LET n == locals.attempt
           result == run_command(outcome, <<>>)
       IN  /\ cmds' = Append(cmds, Ran(CheckoutCommands[n], outcome, <<>>))
           /\ IF switch_returns(n, result)
                THEN /\ locals' = [locals EXCEPT !.main_branch = switch_branch(n)]
                     /\ pc' = "list"
                     /\ UNCHANGED <<exit, ret>>
              ELSE IF n < Len(CheckoutCommands)
                THEN /\ locals' = [locals EXCEPT !.attempt = n + 1]
                     /\ UNCHANGED <<pc, exit, ret>>
              ELSE \* returns None: main() returns False, sys.exit(1)
                   /\ UNCHANGED locals
                   /\ ret' = JBool(FALSE)
                   /\ exit' = 1
                   /\ pc' = "done"
    /\ UNCHANGED <<prog, argv, fs, report, raised>>

(***************************************************************************)
(* git ls-remote --heads origin prints one line per remote head,           *)
(* "<sha>\trefs/heads/<name>"; a listing is the sequence of its head names.*)
(* The two string operations of get_copilot_branches are tabulated over    *)
(* the head names of the sample listings.                                  *)
(***************************************************************************)
HeadNames ==
    {"main", "copilot/fix-1", "copilot/fix-2", "copilot/feature",
     "backup/copilot/fix-1", "archive/refs/heads/copilot/fix-9"}

\* 'copilot/fix-' in line
in_line(head) ==
    head \in {"copilot/fix-1", "copilot/fix-2", "backup/copilot/fix-1",
              "archive/refs/heads/copilot/fix-9"}

\* line.split('refs/heads/')[-1]
branch_name(head) ==
    IF head = "archive/refs/heads/copilot/fix-9" THEN "copilot/fix-9" ELSE head

\* name.startswith("copilot/fix-"), over head names and returned names.
StartsWithPrefix(name) == name \in {"copilot/fix-1", "copilot/fix-2", "copilot/fix-9"}

\* The lines of the listing that get_copilot_branches keeps.
copilot_lines(stdout) == SelectSeq(stdout, in_line)

\* get_copilot_branches: result.stdout is read off whatever run_command
\* returned; an exception gives [].
get_copilot_branches(result) ==
    IF result.raised THEN <<>>
    ELSE [j \in 1..Len(copilot_lines(result.stdout)) |->
             branch_name(copilot_lines(result.stdout)[j])]

\* copilot_branches = get_copilot_branches(), then `if not copilot_branches`.
GetCopilotBranches(outcome, stdout) ==
    /\ prog = "cleanup_repository"
    /\ pc = "list"
    /\ LET result == run_command(outcome, stdout)
           branches == get_copilot_branches(result)
       IN  /\ cmds' = Append(cmds, Ran(<<"git", "ls-remote", "--heads", "origin">>,
                                        outcome, result.stdout))
           /\ locals' = [locals EXCEPT !.copilot_branches = branches, !.i = 1]
           /\ IF branches = <<>>
                THEN \* "No copilot/fix-* branches found": return True
                     /\ ret' = JBool(TRUE)
                     /\ exit' = 0
                     /\ pc' = "done"
                ELSE /\ pc' = "delete"
                     /\ UNCHANGED <<exit, ret>>
    /\ UNCHANGED <<prog, argv, fs, report, raised>>

\* results[branch] = value on a dict kept as a sequence of entries.
SetResult(results, branch, value) ==
    IF \E j \in 1..Len(results) : results[j].branch = branch
      THEN [j \in 1..Len(results) |->
              IF results[j].branch = branch
                THEN [branch |-> branch, success |-> value] ELSE results[j]]
      ELSE Append(results, [branch |-> branch, success |-> value])

delete_result_IgnoresFailure(result) ==
    IF result.raised THEN FALSE ELSE TRUE

\* What one iteration of delete_remote_branches stores for its branch.
delete_result(result) ==
    IF result.raised THEN FALSE ELSE result.returncode_zero

\* One iteration of the loop of delete_remote_branches.
DeleteRemoteBranch(outcome) ==
    /\ prog = "cleanup_repository"
    /\ pc = "delete"
    /\ locals.i <= Len(locals.copilot_branches)
    /\ LET branch == locals.copilot_branches[locals.i]
           result == run_command(outcome, <<>>)
       IN  /\ cmds' = Append(cmds, Ran(<<"git", "push", "origin", "--delete", branch>>,
                                        outcome, <<>>))
           /\ locals' = [locals EXCEPT
                            !.deletion_results = SetResult(@, branch, delete_result(result)),
                            !.i = @ + 1]
    /\ UNCHANGED <<prog, argv, fs, pc, exit, ret, report, raised>>

\* The loop is over: delete_remote_branches returns its results.
DeleteReturn ==
    /\ prog = "cleanup_repository"
    /\ pc = "delete"
    /\ locals.i > Len(locals.copilot_branches)
    /\ pc' = "prune"
    /\ UNCHANGED <<prog, argv, fs, exit, ret, report, raised, cmds, locals>>

\* cleanup_local_branches: the outcome of the prune is ignored.
CleanupLocalBranches(outcome) ==
    /\ prog = "cleanup_repository"
    /\ pc = "prune"
    /\ cmds' = Append(cmds, Ran(<<"git", "remote", "prune", "origin">>, outcome, <<>>))
    /\ pc' = "summary"
    /\ UNCHANGED <<prog, argv, fs, exit, ret, report, raised, locals>>

\* Mutant of Deletions: every branch of the results, whatever its value.
Deletions_IgnoresSuccess(results, success) ==
    [j \in 1..Len(results) |-> results[j].branch]

\* The branches of the results with the given success value, in dict order.
Deletions(results, success) ==
    [j \in 1..Len(SelectSeq(results, LAMBDA e : e.success = success)) |->
        SelectSeq(results, LAMBDA e : e.success = success)[j].branch]

\* The summary and the return value of main(); sys.exit(0 if success else 1).
Summary ==
    /\ prog = "cleanup_repository"
    /\ pc = "summary"
    /\ LET successful_deletions == Deletions(locals.deletion_results, TRUE)
           failed_deletions == Deletions(locals.deletion_results, FALSE)
       IN  /\ report' = [ran |-> TRUE,
                         total |-> Len(locals.copilot_branches),
                         successful |-> successful_deletions,
                         failed |-> failed_deletions]
           /\ ret' = JBool(Len(failed_deletions) = 0)
           /\ exit' = IF Len(failed_deletions) = 0 THEN 0 ELSE 1
    /\ pc' = "done"
    /\ UNCHANGED <<prog, argv, fs, raised, cmds, locals>>

(***************************************************************************)
(* The remote listings: at most MaxHeads distinct head names in any order. *)
(***************************************************************************)
MaxHeads == 2

Listings == OrderedSubsets(HeadNames, MaxHeads)

InitCleanup ==
    /\ prog = "cleanup_repository"
    /\ argv = <<>>
    /\ fs = [p \in Paths |-> NoFile]
    /\ pc = "checkout"
    /\ exit = -1
    /\ ret = JNull
    /\ report = NoReport
    /\ raised = "none"
    /\ cmds = <<>>
    /\ locals = [NoLocals EXCEPT !.attempt = 1]

NextCleanup ==
    \/ \E outcome \in Outcomes : SwitchToMainBranch(outcome)
    \/ \E outcome \in Outcomes, stdout \in Listings : GetCopilotBranches(outcome, stdout)
    \/ \E outcome \in Outcomes : DeleteRemoteBranch(outcome)
    \/ DeleteReturn
    \/ \E outcome \in Outcomes : CleanupLocalBranches(outcome)
    \/ Summary

SpecCleanup == InitCleanup /\ [][NextCleanup]_vars

(***************************************************************************)
(* delete_remote_branches called on its own, with any list of at most      *)
(* MaxBranches distinct branch names (the names of remote heads are        *)
(* distinct).                                                              *)
(***************************************************************************)
MaxBranches == 3

BranchNames == {"copilot/fix-1", "copilot/fix-2", "copilot/fix-9", "backup/copilot/fix-1"}

InitDelete ==
    /\ prog = "cleanup_repository"
    /\ argv = <<>>
    /\ fs = [p \in Paths |-> NoFile]
    /\ pc = "delete"
    /\ exit = -1
    /\ ret = JNull
    /\ report = NoReport
    /\ raised = "none"
    /\ cmds = <<>>
    /\ \E branches \in OrderedSubsets(BranchNames, MaxBranches) :
          locals = [NoLocals EXCEPT !.main_branch = "main",
                                    !.copilot_branches = branches, !.i = 1]

NextDelete ==
    \/ \E outcome \in Outcomes : DeleteRemoteBranch(outcome)
    \/ DeleteReturn

SpecDelete == InitDelete /\ [][NextDelete]_vars

\* The command that deletes a branch on the remote.
DeleteCommand(branch) == <<"git", "push", "origin", "--delete", branch>>

\* The entry of the results for a branch.
ResultOf(results, branch) ==
    (CHOOSE e \in Range(results) : e.branch = branch).success

\* C11: at every point of delete_remote_branches on a list of distinct
\* branches, the commands run so far are the remote deletes of the first
\* i-1 branches of the list, one each, in list order, whatever their
\* outcomes; and when it returns, every branch of the list has been
\* attempted and the mapping has exactly one entry per branch, True exactly
\* for the branches whose delete command succeeded.
C11_BestEffortBatchDeletion ==
    (prog = "cleanup_repository" /\ pc \in {"delete", "prune"}) =>
        LET branches == locals.copilot_branches
            results == locals.deletion_results
        IN  /\ Len(cmds) = locals.i - 1
            /\ \A j \in 1..Len(cmds) : cmds[j].cmd = DeleteCommand(branches[j])
            /\ pc = "prune" =>
                  /\ Len(cmds) = Len(branches)
                  /\ Len(results) = Len(branches)
                  /\ {results[j].branch : j \in 1..Len(results)} = Range(branches)
                  /\ \A j \in 1..Len(branches) :
                        ResultOf(results, branches[j]) = (cmds[j].outcome = "ok")

\* A returned call on three branches whose first delete failed, whose second
\* succeeded and whose third could not be run.
C11_Witness ==
    /\ pc = "prune"
    /\ Len(locals.copilot_branches) = 3
    /\ Len(cmds) = 3
    /\ cmds[1].outcome = "fail"
    /\ cmds[2].outcome = "ok"
    /\ cmds[3].outcome = "raise"
    /\ ResultOf(locals.deletion_results, locals.copilot_branches[2])
    /\ ~ResultOf(locals.deletion_results, locals.copilot_branches[1])

\* The remote listing command, and the entries of `cmds` that ran it.
ListCommand == <<"git", "ls-remote", "--heads", "origin">>

ListingFailed == \E j \in 1..Len(cmds) : cmds[j].cmd = ListCommand /\ cmds[j].outcome # "ok"

\* C12: a finished cleanup run whose remote listing command (git ls-remote)
\* failed ends with a failure result: main() returned False and the exit
\* status is 1.
C12_ListingFailureReported ==
    (prog = "cleanup_repository" /\ pc = "done" /\ ListingFailed) =>
        /\ ret = JBool(FALSE)
        /\ exit = 1

\* The listing command has run and exited 0; what it printed.
Listed == \E j \in 1..Len(cmds) : cmds[j].cmd = ListCommand /\ cmds[j].outcome = "ok"

ListedHeads == cmds[CHOOSE j \in 1..Len(cmds) : cmds[j].cmd = ListCommand].stdout

\* C13: for every output of the remote head listing, the names
\* get_copilot_branches returned all start with "copilot/fix-", and they are
\* the remote heads whose name starts with that prefix, all of them, in
\* listing order.
C13_PrefixFilter ==
    (prog = "cleanup_repository" /\ Listed) =>
        /\ \A j \in 1..Len(locals.copilot_branches) :
              StartsWithPrefix(locals.copilot_branches[j])
        /\ locals.copilot_branches = SelectSeq(ListedHeads, StartsWithPrefix)

\* The document framework_self_validation was given, and the top-level keys
\* whose value is a mapping or a list with more than 9 entries.
ValidatedDocument == fs["in.json"].doc

Overloaded ==
    {key \in DOMAIN ValidatedDocument.f :
        LET value == ValidatedDocument.f[key]
        IN  \/ value.t = "dict" /\ Cardinality(DOMAIN value.f) > 9
            \/ value.t = "list" /\ Len(value.l) > 9}

\* C14: validate_cognitive_load records a violation for the root exactly when
\* the root has more than 9 keys, and one violation for a top-level key
\* exactly when its value is a mapping with more than 9 keys or a list with
\* more than 9 elements, with that count; it records nothing else (nothing
\* deeper than one level), and compliant is True exactly when it recorded no
\* violation.
C14_CognitiveLoadCheck ==
    (prog = "framework_self_validation" /\ pc = "done" /\ report.ran) =>
        LET violations == report.cognitive_load.violations
            root == Cardinality(DOMAIN ValidatedDocument.f) > 9
            keyed == IF root THEN Tail(violations) ELSE violations
        IN  /\ root <=> (violations # <<>> /\ violations[1] =
                            [location |-> "root",
                             count |-> Cardinality(DOMAIN ValidatedDocument.f)])
            /\ {keyed[j].location : j \in 1..Len(keyed)} = Overloaded
            /\ Len(keyed) = Cardinality(Overloaded)
            /\ \A j \in 1..Len(keyed) :
                  LET value == ValidatedDocument.f[keyed[j].location]
                  IN  keyed[j].count = IF value.t = "dict" THEN Cardinality(DOMAIN value.f)
                                       ELSE Len(value.l)
            /\ report.cognitive_load.compliant <=> (violations = <<>>)

\* A document whose section has ten keys: one violation, for that section.
C14_Witness ==
    /\ prog = "framework_self_validation" /\ pc = "done" /\ report.ran
    /\ Overloaded = {"varied"}
    /\ ValidatedDocument.f["varied"].t = "dict"
    /\ report.cognitive_load.violations = << [location |-> "varied", count |-> 10] >>
    /\ ~report.cognitive_load.compliant

\* A list of ten elements one level further down is not flagged.
C14_WitnessNested ==
    /\ prog = "framework_self_validation" /\ pc = "done" /\ report.ran
    /\ "varied" \in DOMAIN ValidatedDocument.f
    /\ ValidatedDocument.f["varied"].t = "dict"
    /\ "values" \in DOMAIN ValidatedDocument.f["varied"].f
    /\ Len(ValidatedDocument.f["varied"].f["values"].l) = 10
    /\ report.cognitive_load.compliant

\* Ten top-level keys: the root is flagged; nine: it is not.
C14_WitnessRoot ==
    /\ prog = "framework_self_validation" /\ pc = "done" /\ report.ran
    /\ report.cognitive_load.violations = << [location |-> "root", count |-> 10] >>

\* How many of the markers of each heuristic check the run found in the
\* serialized document.
EnforcementIndicatorsPresent ==
    Cardinality({name \in {"self_validated", "health_checks", "validation_framework",
                           "auto_applies"} :
                    report.self_enforcement.indicators[name]})

DisclosureMarkersPresent ==
    Cardinality({name \in {"reveal_on", "essential_first", "complexity_indicators"} :
                    report.progressive_disclosure.patterns_found[name] > 0})

\* C15 as stated: the progressive-disclosure check and the self-enforcement
\* check each report compliant exactly when at least 2 of their markers are
\* present in the serialized document.
C15_AtLeastTwoIndicators ==
    (prog = "framework_self_validation" /\ pc = "done" /\ report.ran) =>
        /\ report.self_enforcement.compliant <=> EnforcementIndicatorsPresent >= 2
        /\ report.progressive_disclosure.compliant <=> DisclosureMarkersPresent >= 2

\* C15: the self-enforcement check reports compliant exactly when at least 2
\* of its 4 indicators are present; the progressive-disclosure check reports
\* compliant exactly when reveal_on or essential_first is present, one of
\* them being enough, and whether complexity is present makes no difference.
C15_IndicatorThresholds ==
    (prog = "framework_self_validation" /\ pc = "done" /\ report.ran) =>
        /\ report.self_enforcement.compliant <=> EnforcementIndicatorsPresent >= 2
        /\ report.progressive_disclosure.compliant <=>
              \/ report.progressive_disclosure.patterns_found.reveal_on > 0
              \/ report.progressive_disclosure.patterns_found.essential_first > 0

\* A document with reveal_on as its only disclosure marker and exactly two
\* enforcement indicators: both checks report compliant.
C15_Witness ==
    /\ prog = "framework_self_validation" /\ pc = "done" /\ report.ran
    /\ DOMAIN ValidatedDocument.f["disclosure"].f = {"reveal_on"}
    /\ DisclosureMarkersPresent = 1
    /\ report.progressive_disclosure.compliant
    /\ EnforcementIndicatorsPresent = 2
    /\ report.self_enforcement.compliant

\* Only "complexity" and only "auto_applies_to" and one indicator: neither check
\* reports compliant.
C15_WitnessBelow ==
    /\ prog = "framework_self_validation" /\ pc = "done" /\ report.ran
    /\ DOMAIN ValidatedDocument.f["disclosure"].f = {"complexity"}
    /\ DOMAIN ValidatedDocument.f["enforcement"].f = {"auto_applies_to", "self_validated"}
    /\ ~report.progressive_disclosure.compliant
    /\ EnforcementIndicatorsPresent = 1
    /\ ~report.self_enforcement.compliant

(***************************************************************************)
(* validate_reorganization called on one source and on two targets with    *)
(* the same groups and the same keys in each group: the second target is   *)
(* the first with another value under every key of every group.            *)
(***************************************************************************)
ComparePaths == {"in.json", "out.json", "other.json"}

ReplacementValues ==
    {JNull, SampleDict(<<"legacy_section", "invented">>), JList(<<JStr("core")>>)}

\* The target with `value` under every key of every group.
Revalued(target, value) ==
    JDict(target.k,
          [g \in Keys(target) |->
              IF g # "meta" /\ IsDict(target.f[g])
                THEN JDict(target.f[g].k, [key \in Keys(target.f[g]) |-> value])
                ELSE target.f[g]])

InitCompare ==
    /\ prog = "validate_reorganization"
    /\ argv = <<"in.json", "out.json", "other.json">>
    /\ \E o \in ValidationSources, r \in ValidationTargets, value \in ReplacementValues :
          fs = [p \in ComparePaths |->
                   CASE p = "in.json" -> json_dump(o)
                     [] p = "out.json" -> json_dump(r)
                     [] OTHER -> json_dump(Revalued(r, value))]
    /\ pc = "start"
    /\ exit = -1
    /\ ret = JNull
    /\ report = NoReport
    /\ raised = "none"
    /\ cmds = <<>>
    /\ locals = NoLocals

\* validate_reorganization(argv[1], argv[2]), then
\* validate_reorganization(argv[1], argv[3]).
CompareCalls ==
    /\ prog = "validate_reorganization"
    /\ pc = "start"
    /\ Len(argv) = 3
    /\ pc' = "done"
    /\ LET first == validate_reorganization(fs, argv[1], argv[2])
           second == validate_reorganization(fs, argv[1], argv[3])
       IN  /\ raised' = IF first.err # "none" THEN first.err ELSE second.err
           /\ report' = [ran |-> first.rep.ran /\ second.rep.ran,
                         first |-> first.rep, second |-> second.rep]
    /\ UNCHANGED <<prog, argv, fs, exit, ret, cmds, locals>>

SpecCompare == InitCompare /\ [][CompareCalls]_vars

\* The two targets have the same groups and the same keys in each group.
SameKeyNames(a, b) ==
    /\ a.k = b.k
    /\ \A g \in Keys(a) : a.f[g].t = "dict" =>
          /\ b.f[g].t = "dict"
          /\ Keys(a.f[g]) = Keys(b.f[g])

\* Some value under a key of a group differs between the two targets.
SomeValueDiffers(a, b) ==
    \E g \in Keys(a) \ {"meta"} :
        /\ a.f[g].t = "dict"
        /\ \E key \in Keys(a.f[g]) : a.f[g].f[key] # b.f[g].f[key]

\* C16: for every source and every two targets with the same groups and the
\* same member key names in each group, validate_reorganization returns the
\* same verdict, with the same missing and extra sets, whatever the values
\* under those keys.
C16_KeyNamesOnly ==
    (prog = "validate_reorganization" /\ pc = "done" /\ Len(argv) = 3
        /\ SameKeyNames(fs["out.json"].doc, fs["other.json"].doc)) =>
        /\ report.ran
        /\ report.first.result = report.second.result
        /\ report.first.missing = report.second.missing
        /\ report.first.extra = report.second.extra

\* Two targets that hold every section of the source, with different values
\* under each: both calls return True.
C16_Witness ==
    /\ prog = "validate_reorganization" /\ pc = "done" /\ Len(argv) = 3
    /\ SameKeyNames(fs["out.json"].doc, fs["other.json"].doc)
    /\ SomeValueDiffers(fs["out.json"].doc, fs["other.json"].doc)
    /\ "core" \in DOMAIN fs["in.json"].doc.f
    /\ report.ran
    /\ report.first.result
    /\ report.second.result

\* The same, where both calls return False.
C16_WitnessFalse ==
    /\ prog = "validate_reorganization" /\ pc = "done" /\ Len(argv) = 3
    /\ SomeValueDiffers(fs["out.json"].doc, fs["other.json"].doc)
    /\ report.ran
    /\ ~report.first.result
    /\ ~report.second.result
    /\ report.first.missing # {}

\* The mapping restructure_framework splits for a split key: the section
\* itself, for behavioral_rules its "core_rules".
SplitMapping(key) ==
    IF key = "behavioral_rules" THEN SourceDocument.f[key].f["core_rules"]
    ELSE SourceDocument.f[key]

HasSplitMapping(key) ==
    /\ key \in DOMAIN SourceDocument.f
    /\ SourceDocument.f[key].t = "dict"
    /\ key = "behavioral_rules" =>
          /\ "core_rules" \in DOMAIN SourceDocument.f[key].f
          /\ SourceDocument.f[key].f["core_rules"].t = "dict"

\* The allow-list of each split key in the order the source lists it.
AllowOrder(key) ==
    CASE key = "behavioral_rules" ->
           <<"approval_required", "full_internalization", "never_truncate_policy",
             "surgical_precision">>
      [] key = "web_development" ->
           <<"responsive_design", "accessibility", "performance", "semantic_html",
             "css_architecture">>
      [] key = "design_system" ->
           <<"typography", "color_system", "spacing", "component_library">>
      [] key = "execution" ->
           <<"validation_gates", "error_handling", "rollback_mechanisms">>

\* The keys are in the same relative order as in `order`.
InOrderOf(keys, order) == keys = SelectSeq(order, LAMBDA k : k \in Range(keys))

SplitKeys == {"behavioral_rules", "web_development", "design_system", "execution"}

\* C17 as stated: for every split mapping M, the keys of the essential part
\* and the keys of the advanced part each appear in the same relative order
\* as in M.
C17_SourceOrder ==
    Transformed("restructure_framework") =>
        \A key \in SplitKeys : HasSplitMapping(key) =>
            /\ InOrderOf(EssentialOf(ret, key).k, SplitMapping(key).k)
            /\ InOrderOf(AdvancedOf(ret, key).k, SplitMapping(key).k)

\* C17: for every split mapping M, the keys of the essential part appear in
\* the order of the allow-list, whatever their order in M, and the keys of
\* the advanced part appear in the same relative order as in M.
C17_AllowListOrder ==
    Transformed("restructure_framework") =>
        \A key \in SplitKeys : HasSplitMapping(key) =>
            /\ InOrderOf(EssentialOf(ret, key).k, AllowOrder(key))
            /\ InOrderOf(AdvancedOf(ret, key).k, SplitMapping(key).k)

\* web_development lists accessibility before responsive_design; the
\* essential part lists them the other way round.
C17_Witness ==
    /\ Transformed("restructure_framework")
    /\ HasSplitMapping("web_development")
    /\ SplitMapping("web_development").k = <<"accessibility", "responsive_design", "pwa">>
    /\ EssentialOf(ret, "web_development").k = <<"responsive_design", "accessibility">>

\* Two advanced keys keep their source order.
C17_WitnessAdvanced ==
    /\ Transformed("restructure_framework")
    /\ HasSplitMapping("behavioral_rules")
    /\ SplitMapping("behavioral_rules").k = <<"escalation", "approval_required", "custom_rule">>
    /\ AdvancedOf(ret, "behavioral_rules").k = <<"escalation", "custom_rule">>

\* The file exists and holds JSON.
Parses(path) == fs[path].st = "json"

\* C18: in a finished comprehensive_validation run, every expected JSON file
\* that exists and parses counts as valid whatever value it holds: the
\* framework components validation passes exactly when both main
\* configurations exist and parse, the modular system validation passes
\* exactly when both directories exist and all modules and plugins exist and
\* parse, and no parsed value makes the run raise.
C18_ExistenceAndParse ==
    (prog = "comprehensive_validation" /\ pc = "done") =>
        /\ raised = "none"
        /\ report.ran
        /\ report.validations[1] <=> (Parses("prompts.json") /\ Parses("prompts-v37.json"))
        /\ report.validations[2] <=>
              /\ Exists(fs, "modules")
              /\ Exists(fs, "plugins")
              /\ \A i \in 1..Len(expected_modules) : Parses(expected_modules[i])
              /\ \A i \in 1..Len(expected_plugins) : Parses(expected_plugins[i])

\* The entry of `cmds` is one of the four checkouts / a checkout that
\* succeeded / a branch listing or a remote delete.
IsCheckout(entry) == entry.cmd \in Range(CheckoutCommands)

CheckoutSucceeded(entry) == IsCheckout(entry) /\ entry.outcome = "ok"

IsListOrDelete(entry) ==
    \/ entry.cmd = ListCommand
    \/ Len(entry.cmd) = 5 /\ entry.cmd[2] = "push" /\ entry.cmd[4] = "--delete"

\* C19: switch_to_main_branch returns a branch name only if one of its
\* checkout commands succeeded, and None when all four were tried and
\* failed; and main() issues no branch listing and no remote delete unless a
\* checkout succeeded before it.
C19_CheckoutGatesCleanup ==
    prog = "cleanup_repository" =>
        /\ locals.main_branch # "None" =>
              \E j \in 1..Len(cmds) : CheckoutSucceeded(cmds[j])
        /\ (Len(cmds) >= 4 /\ \A j \in 1..4 : IsCheckout(cmds[j]) /\ cmds[j].outcome # "ok") =>
              locals.main_branch = "None"
        /\ \A j \in 1..Len(cmds) : IsListOrDelete(cmds[j]) =>
              \E i \in 1..(j - 1) : CheckoutSucceeded(cmds[i])

\* C20: in reorganize_framework and restructure_framework the target file is
\* written only once the whole new document has been built: a run that
\* changes the target file raised nothing and wrote the complete document it
\* returns, and a run that fails while reading, parsing or transforming the
\* source returns no document and leaves the target file's content as it
\* was before the run.
C20_NoWriteOnFailure ==
    [][(Run /\ prog \in {"reorganize_framework", "restructure_framework"} /\ Len(argv) = 2) =>
          /\ fs'[argv[2]] # fs[argv[2]] =>
                /\ raised' = "none"
                /\ ret'.t = "dict"
                /\ fs'[argv[2]] = json_dump(ret')
          /\ raised' # "none" =>
                /\ ret' = JNull
                /\ exit' = 1
                /\ fs'[argv[2]] = fs[argv[2]]]_vars

\* A run whose transformation failed (restructure_framework on a source
\* without "meta") with an older target file still in place.
C20_Witness ==
    /\ prog = "restructure_framework"
    /\ pc = "done"
    /\ argv = <<"in.json", "out.json">>
    /\ fs["in.json"].st = "json"
    /\ raised = "KeyError"
    /\ exit = 1
    /\ fs["out.json"] = json_dump(JObj(<< <<"stale", JBool(TRUE)>> >>))

\* A run that could not parse its source, with an older target file.
C20_WitnessParse ==
    /\ prog = "reorganize_framework"
    /\ pc = "done"
    /\ argv = <<"in.json", "out.json">>
    /\ fs["in.json"].st = "garbage"
    /\ raised = "JSONDecodeError"
    /\ fs["out.json"] = json_dump(JObj(<< <<"stale", JBool(TRUE)>> >>))

(***************************************************************************)
(* reorganize_framework.py followed by framework_self_validation.py on the *)
(* document it wrote: the source documents of SourceDocs, with "meta"      *)
(* values of up to CognitiveLimit + MaxOver entries.                       *)
(***************************************************************************)
WideMetaValues ==
    MetaValues
    \cup {WideDict(n) : n \in Sizes(CognitiveLimit)}
    \cup {LongList(n) : n \in Sizes(CognitiveLimit)}

OptimizeSources ==
    {SourceDoc(TRUE, meta, absent, unknown) :
        meta \in WideMetaValues,
        absent \in {a \in SUBSET AbsentCandidates : Cardinality(a) <= MaxAbsent},
        unknown \in {u \in SUBSET Range(UnknownKeys) : Cardinality(u) <= MaxUnknown}}
    \cup
    {SourceDoc(FALSE, JNull, absent, unknown) :
        absent \in {a \in SUBSET AbsentCandidates : Cardinality(a) <= MaxAbsent},
        unknown \in {u \in SUBSET Range(UnknownKeys) : Cardinality(u) <= MaxUnknown}}

InitOptimize ==
    /\ prog = "reorganize_framework"
    /\ argv = <<"in.json", "out.json">>
    /\ \E d \in OptimizeSources :
          fs = [p \in Paths |-> IF p = "in.json" THEN json_dump(d) ELSE NoFile]
    /\ pc = "start"
    /\ exit = -1
    /\ ret = JNull
    /\ report = NoReport
    /\ raised = "none"
    /\ cmds = <<>>
    /\ locals = NoLocals

\* python3 framework_self_validation.py <output.json>, started once
\* reorganize_framework.py has written its output: sys.argv of the new
\* process names the reorganized document.
StartSelfValidation ==
    /\ prog = "reorganize_framework"
    /\ pc = "done"
    /\ Len(argv) = 2
    /\ fs[argv[2]].st = "json"
    /\ prog' = "framework_self_validation"
    /\ argv' = <<argv[2]>>
    /\ pc' = "start"
    /\ exit' = -1
    /\ raised' = "none"
    /\ report' = NoReport
    /\ UNCHANGED <<fs, ret, cmds, locals>>

NextOptimize == ReorganizeMain \/ StartSelfValidation \/ SelfValidationMain

SpecOptimize == InitOptimize /\ [][NextOptimize]_vars

\* The self-validation report on a document reorganize_framework.py wrote.
ReorganizedValidated ==
    /\ prog = "framework_self_validation"
    /\ pc = "done"
    /\ argv = <<"out.json">>
    /\ report.ran

\* C21: for every source document, the document reorganize_framework
\* writes is reported compliant by validate_cognitive_load: no violation at
\* the root and none at any top-level key.
C21_ReorganizedCompliant ==
    ReorganizedValidated => report.cognitive_load.compliant

\* The four verdicts run_comprehensive_validation collects, as reported.
ComplianceScores ==
    <<report.cognitive_load.compliant,
      report.progressive_disclosure.compliant,
      report.dry_compliance.compliant,
      report.self_enforcement.compliant>>

SelfValidationDone == prog = "framework_self_validation" /\ pc = "done"

\* C22: the self-validation reports passing exactly when the cognitive
\* load, progressive disclosure, DRY and self-enforcement checks are all
\* compliant, areas_needing_improvement is the number of checks that are
\* not, and the command returns 0 exactly when a report was made and it
\* is passing.
C22_OverallVerdict ==
    SelfValidationDone =>
        /\ report.ran =>
              /\ report.overall_compliance.passing
                    <=> (\A i \in 1..4 : ComplianceScores[i])
              /\ report.overall_compliance.areas_needing_improvement
                    = Cardinality({i \in 1..4 : ~ComplianceScores[i]})
        /\ exit = 0 <=> (report.ran /\ report.overall_compliance.passing)

\* A document that fails three of the four checks: 1 is returned.
C22_Witness ==
    /\ SelfValidationDone
    /\ report.ran
    /\ report.overall_compliance.areas_needing_improvement = 3
    /\ ~report.overall_compliance.passing
    /\ exit = 1

\* A document that passes all four checks: 0 is returned.
C22_WitnessPassing ==
    /\ SelfValidationDone
    /\ report.ran
    /\ report.overall_compliance.passing
    /\ report.overall_compliance.areas_needing_improvement = 0
    /\ exit = 0

\* A document that fails exactly one check.
C22_WitnessOneArea ==
    /\ SelfValidationDone
    /\ report.ran
    /\ report.overall_compliance.areas_needing_improvement = 1
    /\ ~report.cognitive_load.compliant
    /\ exit = 1

\* The local prune command, and the entries of `cmds` that are remote
\* deletes or prunes.
PruneCommand == <<"git", "remote", "prune", "origin">>

IsDelete(entry) ==
    Len(entry.cmd) = 5 /\ entry.cmd[2] = "push" /\ entry.cmd[4] = "--delete"

DeletePositions == {j \in 1..Len(cmds) : IsDelete(cmds[j])}

PrunePositions == {j \in 1..Len(cmds) : cmds[j].cmd = PruneCommand}

\* The branches whose delete command did not succeed, off the command log.
FailedBranches == {cmds[j].cmd[5] : j \in {d \in DeletePositions : cmds[d].outcome # "ok"}}

\* main() has got past delete_remote_branches and cleanup_local_branches.
Pruned == prog = "cleanup_repository" /\ pc \in {"summary", "done"}
             /\ locals.copilot_branches # <<>>

\* C23: in every cleanup run that found branches, whatever the outcomes of
\* the deletes and of the prune, the local prune is run exactly once, after
\* the last remote delete and before the summary is made; the summary's
\* successful and failed branches are disjoint and together are the
\* branches found; and main() returns True, exit status 0, exactly when no
\* delete failed.
C23_PruneAndSummary ==
    /\ prog = "cleanup_repository" /\ report.ran => Pruned
    /\ Pruned =>
          /\ Cardinality(PrunePositions) = 1
          /\ cmds[Len(cmds)].cmd = PruneCommand
          /\ \A d \in DeletePositions : d < Len(cmds)
          /\ {cmds[d].cmd[5] : d \in DeletePositions} = Range(locals.copilot_branches)
    /\ Pruned /\ pc = "done" =>
          /\ report.ran
          /\ Range(report.successful) \cap Range(report.failed) = {}
          /\ Range(report.successful) \cup Range(report.failed)
                = Range(locals.copilot_branches)
          /\ report.total = Len(report.successful) + Len(report.failed)
          /\ Range(report.failed) = FailedBranches
          /\ ret = JBool(FailedBranches = {})
          /\ exit = (IF FailedBranches = {} THEN 0 ELSE 1)

\* A finished run on two branches: the first delete failed, the second
\* succeeded, the prune failed too; the summary has one branch on each
\* side and the exit status is 1.
C23_Witness ==
    /\ Pruned
    /\ pc = "done"
    /\ Len(locals.copilot_branches) = 2
    /\ Len(report.successful) = 1
    /\ Len(report.failed) = 1
    /\ cmds[Len(cmds)].outcome = "fail"
    /\ cmds[Len(cmds) - 2].outcome = "raise"
    /\ cmds[Len(cmds) - 1].outcome = "ok"
    /\ exit = 1

\* A finished run whose deletes all succeeded: exit status 0.
C23_WitnessSuccess ==
    /\ Pruned
    /\ pc = "done"
    /\ Len(report.successful) = 2
    /\ report.failed = <<>>
    /\ ret = JBool(TRUE)
    /\ exit = 0

(***************************************************************************)
(* The command lines of the utilities: the five document utilities and     *)
(* the branch cleanup.                                                     *)
(***************************************************************************)
InitCli ==
    \/ InitReorganize
    \/ InitRestructure
    \/ InitSelfValidation
    \/ InitComprehensive
    \/ InitConsolidation
    \/ InitCleanup

NextCli ==
    \/ ReorganizeMain
    \/ RestructureMain
    \/ SelfValidationMain
    \/ ComprehensiveMain
    \/ ConsolidationMain
    \/ NextCleanup

SpecCli == InitCli /\ [][NextCli]_vars

\* The number of command-line arguments each utility asks for.
ExpectedArgs ==
    CASE prog \in {"reorganize_framework", "restructure_framework"} -> 2
      [] prog = "framework_self_validation" -> 1
      [] OTHER -> 0

\* The cleanup did all it set out to do: a checkout succeeded and the
\* listing, every remote delete and the prune ran and exited 0.
CleanupSucceeded ==
    /\ \E j \in 1..Len(cmds) : CheckoutSucceeded(cmds[j])
    /\ \A j \in 1..Len(cmds) : ~IsCheckout(cmds[j]) => cmds[j].outcome = "ok"
    /\ \E j \in 1..Len(cmds) : cmds[j].cmd = ListCommand

\* Every check of the finished run passed: the completeness checker's verdict,
\* the consolidation checks, the four self-validation checks, the five
\* integration validations.
ChecksPassed ==
    CASE prog = "reorganize_framework" -> report.ran /\ report.result
      [] prog = "restructure_framework" -> TRUE
      [] prog = "validate_consolidation" -> report.ran /\ report.result
      [] prog = "cleanup_repository" -> CleanupSucceeded
      [] prog = "framework_self_validation" ->
           /\ report.ran
           /\ report.cognitive_load.compliant
           /\ report.progressive_disclosure.compliant
           /\ report.dry_compliance.compliant
           /\ report.self_enforcement.compliant
      [] OTHER ->
           /\ report.ran
           /\ \A i \in 1..Len(report.validations) : report.validations[i]

RunSucceeded == Len(argv) = ExpectedArgs /\ raised = "none" /\ ChecksPassed

\* C10: a finished run of a utility exits with status 0 or 1, and with 0
\* exactly when the argument count was right, no exception occurred and
\* every check or command passed; so a wrong argument count, an exception, a
\* False verdict of validate_reorganization, a failed self-validation or
\* integration check and a failed git command of the cleanup each end the
\* process with status 1.
C10_ExitCodeContract ==
    pc = "done" =>
        /\ exit \in {0, 1}
        /\ exit = 0 <=> RunSucceeded

\* reorganize_framework's command line ends with status 1 after
\* validate_reorganization returned False.
C10_Witness ==
    /\ pc = "done"
    /\ prog = "reorganize_framework"
    /\ raised = "none"
    /\ report.ran /\ ~report.result
    /\ exit = 1

C10_WitnessSuccess ==
    /\ pc = "done"
    /\ prog = "framework_self_validation"
    /\ RunSucceeded
    /\ exit = 0

C10_WitnessException ==
    /\ pc = "done"
    /\ prog = "comprehensive_validation"
    /\ raised = "AttributeError"
    /\ exit = 1

C10_WitnessLastValidation ==
    /\ pc = "done"
    /\ prog = "comprehensive_validation"
    /\ raised = "none"
    /\ report.validations = <<TRUE, TRUE, TRUE, TRUE, FALSE>>
    /\ exit = 1

C10_WitnessArguments ==
    /\ pc = "done"
    /\ Len(argv) # ExpectedArgs
    /\ exit = 1

\* validate_consolidation.py ends with status 0 on a complete document, and
\* with status 1 when an exception leaves it.
C10_WitnessConsolidation ==
    /\ pc = "done"
    /\ prog = "validate_consolidation"
    /\ RunSucceeded
    /\ exit = 0

C10_WitnessConsolidationException ==
    /\ pc = "done"
    /\ prog = "validate_consolidation"
    /\ raised = "TypeError"
    /\ exit = 1

====
